---- MODULE Spec2Model ----
(***************************************************************************)
(* Model of the two wheel-strategy backtest engines of dgiliver/wheeler:   *)
(*   WheelBacktester  (src/src/backtesting/wheel_backtester.py)  "WB"      *)
(*   FastBacktester   (src/run_fast_backtest.py)                 "FB"      *)
(* Money is counted in cents, deltas in thousandths, dates in days.        *)
(* One step of the model is one handler call of the per-day driver loop.   *)
(***************************************************************************)
EXTENDS Integers, Sequences, FiniteSets, TLC

(* ------------------------------ bounds --------------------------------- *)
\* number of trading days a run replays
MaxDays == 4

\* calendar gaps between two consecutive trading days of the replayed series
Gaps(e) == IF e = "WB" THEN {1, 60} ELSE {1, 30}

\* Python's None for a price, an RSI or a date
NoneVal == -1

\* tickers of the watchlist; BAC is a ticker whose name contains the letter C
Symbols == {"F", "BAC"}

\* closing prices (cents) a price series can take, per engine
Prices(e) ==
    IF e = "WB" THEN {7000, 7500, 8000} ELSE {7000, 7600, 7752, 8000}

\* the closing bars of one day: both tickers quote the same close, or no bar
PriceBars(e) == { [s \in Symbols |-> p] : p \in Prices(e) \cup {NoneVal} }

\* RSI values the technical filter can compute for a day
RSIValues == {30, 31}

\* the RSI readings of one day: both tickers move together and get the same
\* reading (NoneVal: no price history, no reading)
RSIBars == { [s \in Symbols |-> r] : r \in RSIValues \cup {NoneVal} }

(* ------------------------- configuration ------------------------------- *)
\* rsi_oversold (WB) / rsi_threshold (FB)
rsi_oversold == 30

VARIABLES
    engine,        \* which implementation runs: "WB" or "FB"
    days,          \* trading days started so far
    date,          \* the trading day being processed
    price,         \* closing price per symbol while `date` is processed (NoneVal: no bar)
    rsi,           \* RSI of each symbol's series on `date` while it is processed (NoneVal: none)
    pc,            \* phase of the driver within the day
    snap,          \* the list copy the current loop iterates (positions[:])
    idx,           \* index of the next element of snap / watchlist
    positions,     \* self.positions
    capital,       \* self.current_capital (WB) / self.capital (FB)
    trades,        \* self.trades
    daily_values,  \* self.daily_portfolio_value (WB) / self.daily_values (FB)
    premium_collected,  \* FastBacktester.premium_collected
    assignments,        \* FastBacktester.assignments
    driver,        \* the program on top of the engine: "single" (one run), a sweep, a function call
    status,        \* where the driver stands: "loading", "ready", "running", "done", "aborted"
    cache,         \* the price data loaded once for all runs of a sweep (PriceCache.cache)
    current,       \* configurations started so far (`current` / `current_test`)
    results,       \* the result rows collected so far (`results`)
    args,          \* the arguments of the function call under study
    out,           \* its return value: << >> before the call, << value >> after
    account        \* the bot's AccountManager: PDT fields (unused by the backtesters)

(* -------------------- configuration of the run -------------------------- *)
\* WheelBacktester.__init__ initial_capital / FastBacktester capital, in cents:
\* 100,000 dollars by default, INITIAL_CAPITAL = 10000 dollars for the
\* driver "small account"
initial_capital == IF driver = "small account" THEN 1000000 ELSE 10000000

\* config.watchlist (WB) / the symbols handed to run (FB): max_position_size
\* in thousandths of the capital; the WB entries carry the delta band of the
\* sweep configuration "Ultra Conservative" (create_config), in thousandths.
\* The driver "small account" gives each ticker 80% of the capital, as the
\* candidate lists do whose allocations add up to more than the capital.
watchlist(e) ==
    LET f == IF driver = "small account" THEN 800 ELSE 100
        b == IF driver = "small account" THEN 800 ELSE IF e = "WB" THEN 50 ELSE 76
    IN  IF e = "WB"
        THEN << [symbol |-> "F",   max_position_size |-> f,
                 min_strike_delta |-> 100, max_strike_delta |-> 200],
                [symbol |-> "BAC", max_position_size |-> b,
                 min_strike_delta |-> 100, max_strike_delta |-> 200] >>
        ELSE << [symbol |-> "F",   max_position_size |-> f],
                [symbol |-> "BAC", max_position_size |-> b] >>

\* AccountManager.__init__: the PDT fields of a new account (dollars)
NewAccount(total_balance) ==
    [ total_balance |-> total_balance, equity |-> total_balance,
      daytrade_count |-> 0, is_pattern_day_trader |-> FALSE ]

\* what belongs to the driver and to function calls, left alone by an engine's steps
aux == << driver, status, cache, current, results, args, out, account >>

vars == << engine, days, date, price, rsi, pc, snap, idx,
           positions, capital, trades, daily_values, premium_collected, assignments,
           driver, status, cache, current, results, args, out, account >>

(* ------------------------------ helpers -------------------------------- *)
\* list.remove(x): drops the first element equal to x
RECURSIVE Remove(_, _)
Remove(seq, x) ==
    IF seq = << >> THEN << >>
    ELSE IF Head(seq) = x THEN Tail(seq)
    ELSE << Head(seq) >> \o Remove(Tail(seq), x)

RECURSIVE SumSeq(_)
SumSeq(seq) == IF seq = << >> THEN 0 ELSE Head(seq) + SumSeq(Tail(seq))

\* round(price * (1 + pct/100), 2) on a price in cents
RoundStrike(p, pct) == (p * (100 + pct) + 50) \div 100

\* "C" in ticker, "P" in ticker
SymbolHasC(s) == s = "BAC"

SymbolHasP(s) == s = "PLTR"

Abs(x) == IF x < 0 THEN -x ELSE x

Max(a, b) == IF a > b THEN a ELSE b

\* strike offset from spot in whole percent: the x of strike = spot*(1+x/100)
Moneyness(spot, strike) == ((strike * 100 + spot \div 2) \div spot) - 100

(* ------------------- option pricing, WheelBacktester ------------------- *)
\* Black-Scholes values of the synthetic chain (sigma 0.3, r 0.04) for the
\* strikes -20%..+20% in 5% steps, tabulated per strike offset at the nominal
\* 45 days to expiry: delta in thousandths, premium in 1/10000 of spot.
WB_PutDeltaTable == << -13, -50, -136, -279, -460, -642, -790, -890, -949 >>
WB_PutPremiumTable == << 5, 23, 76, 192, 395, 690, 1065, 1497, 1963 >>
WB_CallDeltaTable == << 987, 950, 864, 721, 540, 358, 210, 110, 51 >>
WB_CallPremiumTable == << 2044, 1565, 1120, 739, 444, 242, 119, 53, 22 >>

WB_TableIndex(spot, strike) ==
    LET x == Moneyness(spot, strike)
    IN  IF x < -20 THEN 1 ELSE IF x > 20 THEN 9 ELSE ((x + 20) \div 5) + 1

\* _calculate_delta: d1 = 0 for non-positive inputs, so delta = cdf(0) [- 1]
WB_calculate_delta(current_price, strike, is_put) ==
    IF current_price <= 0 \/ strike <= 0
    THEN (IF is_put THEN -500 ELSE 500)
    ELSE IF is_put THEN WB_PutDeltaTable[WB_TableIndex(current_price, strike)]
         ELSE WB_CallDeltaTable[WB_TableIndex(current_price, strike)]

\* _calculate_option_premium: max(0.01, price); with d1 = 0 the formula is
\* K*e^(-rT)*cdf(sigma*sqrt(T)) - S/2 for a put, S/2 - K*e^(-rT)*cdf(-sigma*sqrt(T))
\* for a call
WB_calculate_option_premium(current_price, strike, is_put) ==
    IF current_price <= 0 \/ strike <= 0
    THEN (IF is_put
          THEN Max(1, (5393 * strike - 5000 * current_price) \div 10000)
          ELSE Max(1, (5000 * current_price - 4558 * strike) \div 10000))
    ELSE IF is_put
         THEN Max(1, (current_price * WB_PutPremiumTable[WB_TableIndex(current_price,
                 strike)]) \div 10000)
         ELSE Max(1, (current_price * WB_CallPremiumTable[WB_TableIndex(current_price,
                 strike)]) \div 10000)

\* the strike ladder of get_historical_options: range(-20, 21, 5)
WB_StrikeOffsets == << -20, -15, -10, -5, 0, 5, 10, 15, 20 >>

\* one synthetic contract of get_historical_options
WB_Option(symbol, spot, offset, is_put, expiration) ==
    LET strike  == RoundStrike(spot, offset)
        premium == WB_calculate_option_premium(spot, strike, is_put)
    IN  [ id            |-> [symbol |-> symbol, exp_str |-> expiration,
                             letter |-> IF is_put THEN "P" ELSE "C", strike |-> strike],
          symbol        |-> symbol,
          strike        |-> strike,
          type          |-> IF is_put THEN "put" ELSE "call",
          expiration    |-> expiration,
          bid           |-> (premium * 95) \div 100,
          ask           |-> (premium * 105) \div 100,
          volume        |-> 1000,
          open_interest |-> 5000,
          delta         |-> WB_calculate_delta(spot, strike, is_put) ]

\* get_historical_options: empty without a price bar, else per strike the put
\* followed by the call, strikes ascending
get_historical_options(symbol, spot, expiration) ==
    IF spot = NoneVal THEN << >>
    ELSE [ i \in 1..(2 * Len(WB_StrikeOffsets)) |->
             WB_Option(symbol, spot, WB_StrikeOffsets[(i + 1) \div 2], i % 2 = 1, expiration) ]

\* "C" in option["id"] / "P" in option["id"]: the id is ticker + date + letter + digits
IdContains(id, letter) ==
    \/ id.letter = letter
    \/ (letter = "C" /\ SymbolHasC(id.symbol))
    \/ (letter = "P" /\ SymbolHasP(id.symbol))

\* _extract_expiration: the six digits in front of the C/P letter
WB_extract_expiration(id) == id.exp_str

\* _get_next_monthly_expiration: third Friday of the month after `d`
\* (calendar of 30-day months whose third Friday is day 20)
WB_get_next_monthly_expiration(d) == ((d \div 30) + 1) * 30 + 20

(* ----------------------- StrategyAnalyzer ------------------------------ *)
\* OptionQuote.spread_percentage <= max_spread_percentage (15), inf when ask = 0
SpreadOk(bid, ask) == ask # 0 /\ (ask - bid) * 100 <= 15 * ask

\* StrategyAnalyzer._is_liquid with the backtester's min_volume 10, min_open_interest 50
is_liquid(option) ==
    /\ ~ (option.volume < 10)
    /\ ~ (option.open_interest < 50)
    /\ SpreadOk(option.bid, option.ask)

\* the loop of analyze_put_opportunity from element i on; best is the index
\* of best_option (0: None), best_score its bid
RECURSIVE BestPut(_, _, _, _, _, _)
BestPut(chain, i, best, best_score, min_delta, max_delta) ==
    IF i > Len(chain) THEN best
    ELSE LET option == chain[i]
             take   == /\ option.type # "call"
                       /\ (option.type = "put" \/ IdContains(option.id, "P"))
                       /\ is_liquid(option)
                       /\ min_delta <= Abs(option.delta)
                       /\ Abs(option.delta) <= max_delta
                       /\ option.bid > best_score
         IN  IF take
             THEN BestPut(chain, i + 1, i, option.bid, min_delta, max_delta)
             ELSE BestPut(chain, i + 1, best, best_score, min_delta, max_delta)

\* analyze_put_opportunity: index of the selected put in the chain, 0 for None.
\* rsi_value = NoneVal stands for an empty price_data frame.
analyze_put_opportunity(rsi_value, chain, min_delta, max_delta) ==
    IF rsi_value = NoneVal \/ chain = << >> THEN 0
    ELSE IF rsi_value > rsi_oversold THEN 0
    ELSE BestPut(chain, 1, 0, -1, min_delta, max_delta)

(* ========================= WheelBacktester ============================= *)
\* Position(...) of src/models/position.py with the fields the backtester sets
WB_Position(symbol, entry_price, quantity, position_type, expiration, strike_price, premium_received) ==

    [ symbol |-> symbol, entry_price |-> entry_price, quantity |-> quantity,
      position_type |-> position_type, expiration |-> expiration,
      strike_price |-> strike_price, premium_received |-> premium_received ]

\* _can_enter_new_position: value of the symbol's open positions below the allocation
WB_can_enter_new_position(stock) ==
    LET own == SelectSeq(positions, LAMBDA pos : pos.symbol = stock.symbol)
        symbol_positions_value ==
            SumSeq([ i \in 1..Len(own) |-> own[i].quantity * own[i].entry_price ])
        max_position_value == (initial_capital * stock.max_position_size) \div 1000
    IN  symbol_positions_value < max_position_value

\* the assignment test of a put in _handle_option_expiration
WB_put_is_assigned(current_price, strike_price) == current_price < strike_price

\* the call-away test of a covered call in _handle_option_expiration
WB_call_is_assigned(current_price, strike_price) == current_price > strike_price

\* the stock position a call-away removes: the first one of the symbol with
\* enough shares (0: none found)
WB_stock_to_remove(position) ==
    LET found == { i \in 1..Len(positions) :
                     /\ positions[i].symbol = position.symbol
                     /\ positions[i].position_type = "STOCK"
                     /\ positions[i].quantity >= position.quantity }
    IN  IF found = {} THEN 0 ELSE CHOOSE i \in found : \A j \in found : i <= j

\* run_backtest: the next trading day starts, _process_trading_day begins
\* with _manage_existing_positions over a copy of the position list
WB_run_backtest ==
    /\ engine = "WB" /\ pc = "idle" /\ days < MaxDays
    /\ \E gap \in Gaps("WB") : date' = date + gap
    /\ \E pr \in PriceBars("WB") : price' = pr
    /\ days' = days + 1
    /\ \E rs \in RSIBars : rsi' = rs
    /\ snap' = positions
    /\ idx' = 1
    /\ pc' = "manage"
    /\ UNCHANGED aux
    /\ UNCHANGED << engine, positions, capital, trades, daily_values,
                    premium_collected, assignments >>

\* _handle_option_expiration for the next position of the copy, an option
\* whose expiration has arrived
WB_handle_option_expiration ==
    /\ engine = "WB" /\ pc = "manage" /\ idx <= Len(snap)
    /\ snap[idx].position_type \in {"CSP", "CC"}
    /\ snap[idx].expiration # NoneVal /\ date >= snap[idx].expiration
    /\ LET position      == snap[idx]
           current_price == price[position.symbol]
           closing(action, px) ==
               [ date |-> date, symbol |-> position.symbol, action |-> action,
                 quantity |-> position.quantity, price |-> px ]
       IN  IF current_price = NoneVal
           THEN UNCHANGED << positions, capital, trades >>
           ELSE IF position.position_type = "CSP"
           THEN IF WB_put_is_assigned(current_price, position.strike_price)
                THEN /\ trades' = Append(trades, closing("PUT_ASSIGNED", position.strike_price))
                     /\ positions' = Append(Remove(positions, position),
                                        WB_Position(position.symbol, position.strike_price,
                                                    position.quantity, "STOCK", NoneVal, NoneVal,
                                                    position.premium_received))
                     /\ capital' = capital - position.strike_price * position.quantity
                ELSE /\ trades' = Append(trades, closing("PUT_EXPIRED", 0))
                     /\ positions' = Remove(positions, position)
                     /\ UNCHANGED capital
           ELSE IF WB_call_is_assigned(current_price, position.strike_price)
                THEN LET k == WB_stock_to_remove(position)
                         kept == IF k = 0 THEN positions ELSE Remove(positions, positions[k])
                     IN  /\ trades' = Append(trades, closing("CALL_ASSIGNED",
                             position.strike_price))
                         /\ positions' = Remove(kept, position)
                         /\ capital' = capital + position.strike_price * position.quantity
                ELSE /\ trades' = Append(trades, closing("CALL_EXPIRED", 0))
                     /\ positions' = Remove(positions, position)
                     /\ UNCHANGED capital
    /\ idx' = idx + 1
    /\ UNCHANGED aux
    /\ UNCHANGED << engine, days, date, price, rsi, pc, snap, daily_values,
                    premium_collected, assignments >>

\* a credit that forgets the 100 shares of a contract
WB_call_credit_per_share(premium, quantity) == premium * quantity

\* the premium _sell_call credits: premium * quantity * 100
WB_call_credit(premium, quantity) == premium * quantity * 100

\* an "existing_cc" test that never finds a call
WB_existing_cc_blind(symbol) == FALSE

\* the "existing_cc" test of _try_sell_covered_call
WB_existing_cc(symbol) ==
    \E i \in 1..Len(positions) :
        positions[i].symbol = symbol /\ positions[i].position_type = "CC"

\* the contract _try_sell_covered_call picks: the first of the chain with a
\* "C" in its id and a strike 5% to 10% above spot (0: none)
WB_suitable_call(chain, current_price) ==
    LET ok == { i \in 1..Len(chain) :
                  /\ IdContains(chain[i].id, "C")
                  /\ 105 * current_price <= 100 * chain[i].strike
                  /\ 100 * chain[i].strike <= 110 * current_price }
    IN  IF ok = {} THEN 0 ELSE CHOOSE i \in ok : \A j \in ok : i <= j

\* _try_sell_covered_call (with _sell_call) for the next position of the
\* copy, a stock position
WB_try_sell_covered_call ==
    /\ engine = "WB" /\ pc = "manage" /\ idx <= Len(snap)
    /\ snap[idx].position_type = "STOCK"
    /\ LET position      == snap[idx]
           current_price == price[position.symbol]
           chain    == get_historical_options(position.symbol, current_price,
                                              WB_get_next_monthly_expiration(date))
           c        == IF current_price = NoneVal THEN 0 ELSE WB_suitable_call(chain, current_price)
           quantity == position.quantity \div 100
       IN  IF WB_existing_cc(position.symbol) \/ c = 0 \/ quantity = 0
           THEN UNCHANGED << positions, capital, trades >>
           ELSE LET call == chain[c] IN
                /\ trades' = Append(trades,
                      [ date |-> date, symbol |-> position.symbol, action |-> "SELL_CALL",
                        quantity |-> quantity, price |-> call.bid, option_id |-> call.id ])
                /\ positions' = Append(positions,
                      WB_Position(position.symbol, call.strike, quantity * 100, "CC",
                                  WB_extract_expiration(call.id), call.strike, call.bid))
                /\ capital' = capital + WB_call_credit(call.bid, quantity)
    /\ idx' = idx + 1
    /\ UNCHANGED aux
    /\ UNCHANGED << engine, days, date, price, rsi, pc, snap, daily_values,
                    premium_collected, assignments >>

\* a loop that may pass over any option, due or not
WB_manage_skip_option ==
    /\ engine = "WB" /\ pc = "manage" /\ idx <= Len(snap)
    /\ snap[idx].position_type \in {"CSP", "CC"}
    /\ idx' = idx + 1
    /\ UNCHANGED aux
    /\ UNCHANGED << engine, days, date, price, rsi, pc, snap, positions, capital,
                    trades, daily_values,
                    premium_collected, assignments >>

\* _manage_existing_positions passes over an option that is not due yet
WB_manage_not_due ==
    /\ engine = "WB" /\ pc = "manage" /\ idx <= Len(snap)
    /\ snap[idx].position_type \in {"CSP", "CC"}
    /\ ~ (snap[idx].expiration # NoneVal /\ date >= snap[idx].expiration)
    /\ idx' = idx + 1
    /\ UNCHANGED aux
    /\ UNCHANGED << engine, days, date, price, rsi, pc, snap, positions, capital,
                    trades, daily_values,
                    premium_collected, assignments >>

\* _manage_existing_positions returns; the watchlist loop starts
WB_manage_done ==
    /\ engine = "WB" /\ pc = "manage" /\ idx > Len(snap)
    /\ pc' = "entry"
    /\ snap' = << >>
    /\ idx' = 1
    /\ UNCHANGED aux
    /\ UNCHANGED << engine, days, date, price, rsi, positions, capital,
                    trades, daily_values,
                    premium_collected, assignments >>

\* one round of the watchlist loop of _process_trading_day:
\* _can_enter_new_position, _find_entry_opportunity and _sell_put
WB_find_entry_opportunity ==
    /\ engine = "WB" /\ pc = "entry" /\ idx <= Len(watchlist("WB"))
    /\ LET stock == watchlist("WB")[idx]
           chain == get_historical_options(stock.symbol, price[stock.symbol],
                                           WB_get_next_monthly_expiration(date))
       IN  IF ~ WB_can_enter_new_position(stock)
           THEN UNCHANGED << positions, capital, trades >>
           ELSE LET p == analyze_put_opportunity(rsi[stock.symbol], chain, 200, 450)
                IN  IF p = 0
                    THEN UNCHANGED << positions, capital, trades >>
                    ELSE LET put == chain[p] IN
                         /\ trades' = Append(trades,
                               [ date |-> date, symbol |-> stock.symbol, action |-> "SELL_PUT",
                                 quantity |-> 1, price |-> put.bid, option_id |-> put.id ])
                         /\ positions' = Append(positions,
                               WB_Position(stock.symbol, put.strike, 100, "CSP",
                                           WB_extract_expiration(put.id), put.strike, put.bid))
                         /\ capital' = capital + put.bid * 100
    /\ idx' = idx + 1
    /\ UNCHANGED aux
    /\ UNCHANGED << engine, days, date, price, rsi, pc, snap, daily_values,
                    premium_collected, assignments >>

\* _record_portfolio_value closes the day
WB_record_portfolio_value ==
    /\ engine = "WB" /\ pc = "entry" /\ idx > Len(watchlist("WB"))
    /\ LET stock == SelectSeq(positions, LAMBDA pos : pos.position_type = "STOCK")
           total_value == capital +
               SumSeq([ i \in 1..Len(stock) |->
                          IF price[stock[i].symbol] = NoneVal \/ price[stock[i].symbol] = 0
                          THEN 0 ELSE price[stock[i].symbol] * stock[i].quantity ])
       IN  daily_values' = Append(daily_values, [date |-> date, portfolio_value |-> total_value])
    /\ pc' = "idle"
    /\ price' = [s \in Symbols |-> NoneVal]
    /\ rsi' = [s \in Symbols |-> NoneVal]
    /\ idx' = 1
    /\ UNCHANGED aux
    /\ UNCHANGED << engine, days, date, snap, positions, capital, trades,
                    premium_collected, assignments >>

WB_Next ==
    \/ WB_run_backtest
    \/ WB_handle_option_expiration
    \/ WB_try_sell_covered_call
    \/ WB_manage_not_due
    \/ WB_manage_done
    \/ WB_find_entry_opportunity
    \/ WB_record_portfolio_value

Init ==
    /\ engine \in {"WB", "FB"}
    /\ driver = "single"
    /\ days = 0
    /\ date = 0
    /\ price = [s \in Symbols |-> NoneVal]
    /\ rsi = [s \in Symbols |-> NoneVal]
    /\ pc = "idle"
    /\ snap = << >>
    /\ idx = 1
    /\ positions = << >>
    /\ capital = initial_capital
    /\ trades = << >>
    /\ daily_values = << >>
    /\ premium_collected = 0
    /\ assignments = 0
    /\ status = "running"
    /\ cache = << >>
    /\ current = 0
    /\ results = << >>
    /\ args = << >>
    /\ out = << >>
    /\ account = NewAccount(0)

(* ========================== FastBacktester ============================= *)
\* DELTA_CONFIGS "Moderate": the delta band of the run, in thousandths
min_delta == 250

max_delta == 350

\* Black-Scholes values of calculate_delta / calculate_premium (iv 0.35, r 0.05)
\* at 30 days to expiry: puts for the strikes -30%..-5%, calls for +2%..+15%,
\* delta in thousandths, premium in 1/10000 of spot
FB_PutDeltaTable ==
    << 0, 0, 0, -1, -1, -2, -2, -4, -5, -7, -10, -14, -19, -26, -34, -44, -55, -70, -86, -105,
        -127, -151, -178, -208, -240, -273 >>
FB_PutPremiumTable ==
    << 0, 0, 0, 0, 0, 0, 1, 1, 2, 2, 4, 5, 7, 10, 14, 19, 25, 32, 41, 53, 66, 82, 101, 123,
        149, 178 >>
FB_CallDeltaTable == << 458, 419, 382, 346, 312, 280, 250, 221, 195, 171, 150, 130, 112, 97 >>
FB_CallPremiumTable == << 329, 289, 253, 221, 191, 165, 142, 122, 104, 88, 74, 63, 52, 44 >>

FB_PutIndex(spot, strike) ==
    LET x == Moneyness(spot, strike)
    IN  IF x < -30 THEN 1 ELSE IF x > -5 THEN 26 ELSE x + 31

FB_CallIndex(spot, strike) ==
    LET x == Moneyness(spot, strike)
    IN  IF x < 2 THEN 1 ELSE IF x > 15 THEN 14 ELSE x - 1

\* calculate_delta: 0 for non-positive inputs
calculate_delta(spot, strike, is_put) ==
    IF spot <= 0 \/ strike <= 0 THEN 0
    ELSE IF is_put THEN FB_PutDeltaTable[FB_PutIndex(spot, strike)]
         ELSE FB_CallDeltaTable[FB_CallIndex(spot, strike)]

\* calculate_premium: 0.01 for non-positive inputs, floored at 0.01
calculate_premium(spot, strike, is_put) ==
    IF spot <= 0 \/ strike <= 0 THEN 1
    ELSE IF is_put
         THEN Max(1, (spot * FB_PutPremiumTable[FB_PutIndex(spot, strike)]) \div 10000)
         ELSE Max(1, (spot * FB_CallPremiumTable[FB_CallIndex(spot, strike)]) \div 10000)

\* find_put_by_delta: the first strike offset of range(-30, -4) whose
\* |delta| lies in the band (0: None)
find_put_by_delta(spot, lo, hi) ==
    LET ok == { pct \in -30..-5 :
                  LET delta == Abs(calculate_delta(spot, RoundStrike(spot, pct), TRUE))
                  IN  lo <= delta /\ delta <= hi }
    IN  IF ok = {} THEN 0 ELSE CHOOSE pct \in ok : \A q \in ok : pct <= q

\* the strike filter of find_call_by_delta: strikes below cost basis are skipped
FB_strike_allowed(strike, cost_basis) == ~ (strike < cost_basis)

\* find_call_by_delta: the first strike offset of range(2, 16) at or above
\* the cost basis whose premium exceeds 0.10 (0: None)
find_call_by_delta(spot, cost_basis) ==
    LET ok == { pct \in 2..15 :
                  /\ FB_strike_allowed(RoundStrike(spot, pct), cost_basis)
                  /\ calculate_premium(spot, RoundStrike(spot, pct), FALSE) > 10 }
    IN  IF ok = {} THEN 0 ELSE CHOOSE pct \in ok : \A q \in ok : pct <= q

\* the Position dataclass of run_fast_backtest.py
FB_Position(symbol, position_type, strike, expiration, premium, shares, cost_basis) ==
    [ symbol |-> symbol, position_type |-> position_type, strike |-> strike,
      expiration |-> expiration, premium |-> premium, shares |-> shares,
      cost_basis |-> cost_basis ]

\* _has_position
FB_has_position(symbol) == \E i \in 1..Len(positions) : positions[i].symbol = symbol

\* an assignment test that also assigns at the money
FB_put_is_assigned_at_the_money(spot, strike) == spot <= strike

\* the assignment test of _handle_csp_expiration
FB_put_is_assigned(spot, strike) == spot < strike

\* the call-away test of _handle_cc_expiration
FB_call_is_assigned(spot, strike) == spot > strike

\* run: the next trading day; _process_day starts its expiration loop over a
\* copy of the position list
FB_run ==
    /\ engine = "FB" /\ pc = "idle" /\ days < MaxDays
    /\ \E gap \in Gaps("FB") : date' = date + gap
    /\ \E pr \in PriceBars("FB") : price' = pr
    /\ days' = days + 1
    /\ \E rs \in RSIBars : rsi' = rs
    /\ snap' = positions
    /\ idx' = 1
    /\ pc' = "expire"
    /\ UNCHANGED aux
    /\ UNCHANGED << engine, positions, capital, trades, daily_values,
                    premium_collected, assignments >>

\* _handle_csp_expiration for the next position of the copy, a due put
FB_handle_csp_expiration ==
    /\ engine = "FB" /\ pc = "expire" /\ idx <= Len(snap)
    /\ snap[idx].position_type = "CSP"
    /\ snap[idx].expiration # NoneVal /\ date >= snap[idx].expiration
    /\ LET pos  == snap[idx]
           spot == IF price[pos.symbol] = NoneVal THEN pos.strike ELSE price[pos.symbol]
       IN  IF FB_put_is_assigned(spot, pos.strike)
           THEN /\ capital' = capital - pos.strike * 100
                /\ assignments' = assignments + 1
                /\ positions' = Append(Remove(positions, pos),
                                   FB_Position(pos.symbol, "STOCK", 0, NoneVal, 0, 100,
                                               pos.strike - pos.premium))
                /\ trades' = Append(trades, [date |-> date, action |-> "ASSIGNED",
                        symbol |-> pos.symbol])
           ELSE /\ positions' = Remove(positions, pos)
                /\ trades' = Append(trades, [date |-> date, action |-> "EXPIRED",
                        symbol |-> pos.symbol])
                /\ UNCHANGED << capital, assignments >>
    /\ idx' = idx + 1
    /\ UNCHANGED aux
    /\ UNCHANGED << engine, days, date, price, rsi, pc, snap, daily_values, premium_collected >>

\* the stock position a call-away removes: the first one of the symbol (0: none)
FB_stock_pos(symbol) ==
    LET found == { i \in 1..Len(positions) :
                     positions[i].symbol = symbol /\ positions[i].position_type = "STOCK" }
    IN  IF found = {} THEN 0 ELSE CHOOSE i \in found : \A j \in found : i <= j

\* _handle_cc_expiration for the next position of the copy, a due call
FB_handle_cc_expiration ==
    /\ engine = "FB" /\ pc = "expire" /\ idx <= Len(snap)
    /\ snap[idx].position_type = "CC"
    /\ snap[idx].expiration # NoneVal /\ date >= snap[idx].expiration
    /\ LET pos  == snap[idx]
           spot == IF price[pos.symbol] = NoneVal THEN pos.strike ELSE price[pos.symbol]
           k    == FB_stock_pos(pos.symbol)
           kept == IF k = 0 THEN positions ELSE Remove(positions, positions[k])
       IN  IF FB_call_is_assigned(spot, pos.strike)
           THEN /\ capital' = capital + pos.strike * 100
                /\ positions' = Remove(kept, pos)
                /\ trades' = Append(trades, [date |-> date, action |-> "CALLED_AWAY",
                        symbol |-> pos.symbol])
           ELSE /\ positions' = Remove(positions, pos)
                /\ trades' = Append(trades, [date |-> date, action |-> "CC_EXPIRED",
                        symbol |-> pos.symbol])
                /\ UNCHANGED capital
    /\ idx' = idx + 1
    /\ UNCHANGED aux
    /\ UNCHANGED << engine, days, date, price, rsi, pc, snap, daily_values,
                    premium_collected, assignments >>

\* the expiration loop passes over a stock position or an option not yet due
FB_expire_not_due ==
    /\ engine = "FB" /\ pc = "expire" /\ idx <= Len(snap)
    /\ ~ ( /\ snap[idx].position_type \in {"CSP", "CC"}
           /\ snap[idx].expiration # NoneVal /\ date >= snap[idx].expiration )
    /\ idx' = idx + 1
    /\ UNCHANGED aux
    /\ UNCHANGED << engine, days, date, price, rsi, pc, snap, positions, capital,
                    trades, daily_values, premium_collected, assignments >>

\* the expiration loop ends; the covered-call loop starts over a new copy
FB_expire_done ==
    /\ engine = "FB" /\ pc = "expire" /\ idx > Len(snap)
    /\ pc' = "cc"
    /\ snap' = positions
    /\ idx' = 1
    /\ UNCHANGED aux
    /\ UNCHANGED << engine, days, date, price, rsi, positions, capital, trades,
                    daily_values, premium_collected, assignments >>

\* the "already have a CC" test of _try_sell_cc
FB_existing_cc(symbol) ==
    \E i \in 1..Len(positions) :
        positions[i].symbol = symbol /\ positions[i].position_type = "CC"

\* _try_sell_cc for the next position of the copy, a stock position
FB_try_sell_cc ==
    /\ engine = "FB" /\ pc = "cc" /\ idx <= Len(snap)
    /\ snap[idx].position_type = "STOCK"
    /\ LET pos  == snap[idx]
           spot == price[pos.symbol]
           pct  == IF spot = NoneVal THEN 0 ELSE find_call_by_delta(spot, pos.cost_basis)
       IN  IF FB_existing_cc(pos.symbol) \/ pct = 0
           THEN UNCHANGED << positions, capital, trades, premium_collected >>
           ELSE LET strike  == RoundStrike(spot, pct)
                    premium == calculate_premium(spot, strike, FALSE)
                IN  /\ capital' = capital + premium * 100
                    /\ premium_collected' = premium_collected + premium * 100
                    /\ positions' = Append(positions,
                           FB_Position(pos.symbol, "CC", strike, date + 30, premium, 0, 0))
                    /\ trades' = Append(trades, [date |-> date, action |-> "SELL_CC",
                            symbol |-> pos.symbol])
    /\ idx' = idx + 1
    /\ UNCHANGED aux
    /\ UNCHANGED << engine, days, date, price, rsi, pc, snap, daily_values, assignments >>

\* the covered-call loop passes over an option position
FB_cc_skip ==
    /\ engine = "FB" /\ pc = "cc" /\ idx <= Len(snap)
    /\ snap[idx].position_type # "STOCK"
    /\ idx' = idx + 1
    /\ UNCHANGED aux
    /\ UNCHANGED << engine, days, date, price, rsi, pc, snap, positions, capital,
                    trades, daily_values, premium_collected, assignments >>

\* the covered-call loop ends; the entry loop over the symbols starts
FB_cc_done ==
    /\ engine = "FB" /\ pc = "cc" /\ idx > Len(snap)
    /\ pc' = "entry"
    /\ snap' = << >>
    /\ idx' = 1
    /\ UNCHANGED aux
    /\ UNCHANGED << engine, days, date, price, rsi, positions, capital, trades,
                    daily_values, premium_collected, assignments >>

\* a gate one point too lenient
FB_rsi_blocks_lenient(rsi_value) == rsi_value > rsi_oversold + 1

\* the RSI gate of _process_day
FB_rsi_blocks(rsi_value) == rsi_value > rsi_oversold

\* one round of the entry loop of _process_day, with _sell_csp
FB_entry ==
    /\ engine = "FB" /\ pc = "entry" /\ idx <= Len(watchlist("FB"))
    /\ LET symbol       == watchlist("FB")[idx].symbol
           max_pos_size == watchlist("FB")[idx].max_position_size
           spot         == price[symbol]
       IN  IF FB_has_position(symbol)
           THEN UNCHANGED << positions, capital, trades, premium_collected >>
           ELSE LET r == rsi[symbol]
                    max_capital == (initial_capital * max_pos_size) \div 1000
                    pct == IF spot = NoneVal \/ r = NoneVal \/ FB_rsi_blocks(r)
                              \/ spot * 100 > max_capital
                           THEN 0 ELSE find_put_by_delta(spot, min_delta, max_delta)
                IN  IF pct = 0
                    THEN UNCHANGED << positions, capital, trades, premium_collected >>
                    ELSE LET strike  == RoundStrike(spot, pct)
                             premium == calculate_premium(spot, strike, TRUE)
                         IN  /\ capital' = capital + premium * 100
                             /\ premium_collected' = premium_collected + premium * 100
                             /\ positions' = Append(positions,
                                    FB_Position(symbol, "CSP", strike, date + 30, premium, 0, 0))
                             /\ trades' = Append(trades, [date |-> date, action |-> "SELL_CSP",
                                     symbol |-> symbol])
    /\ idx' = idx + 1
    /\ UNCHANGED aux
    /\ UNCHANGED << engine, days, date, price, rsi, pc, snap, daily_values, assignments >>

\* _record_value closes the day
FB_record_value ==
    /\ engine = "FB" /\ pc = "entry" /\ idx > Len(watchlist("FB"))
    /\ LET stock == SelectSeq(positions, LAMBDA pos : pos.position_type = "STOCK")
           value == capital +
               SumSeq([ i \in 1..Len(stock) |->
                          IF price[stock[i].symbol] = NoneVal \/ price[stock[i].symbol] = 0
                          THEN 0 ELSE price[stock[i].symbol] * stock[i].shares ])
       IN  daily_values' = Append(daily_values, value)
    /\ pc' = "idle"
    /\ price' = [s \in Symbols |-> NoneVal]
    /\ rsi' = [s \in Symbols |-> NoneVal]
    /\ idx' = 1
    /\ UNCHANGED aux
    /\ UNCHANGED << engine, days, date, snap, positions, capital, trades,
                    premium_collected, assignments >>

FB_Next ==
    \/ FB_run
    \/ FB_handle_csp_expiration
    \/ FB_handle_cc_expiration
    \/ FB_expire_not_due
    \/ FB_expire_done
    \/ FB_try_sell_cc
    \/ FB_cc_skip
    \/ FB_cc_done
    \/ FB_entry
    \/ FB_record_value

Next == WB_Next \/ FB_Next

Spec == Init /\ [][Next]_vars

(* ============================ properties =============================== *)
\* number of open positions of kind t on symbol s in the position list pos
Count(pos, s, t) ==
    Cardinality({ i \in 1..Len(pos) : pos[i].symbol = s /\ pos[i].position_type = t })

\* number of open positions on symbol s
CountAll(pos, s) == Cardinality({ i \in 1..Len(pos) : pos[i].symbol = s })

\* strike, cost basis and share count of a position record of either engine
StrikeOf(p) == IF engine = "WB" THEN p.strike_price ELSE p.strike

CostBasisOf(p) ==
    IF engine = "WB" THEN p.entry_price - p.premium_received ELSE p.cost_basis

SharesOf(p) == IF engine = "WB" THEN p.quantity ELSE p.shares

ContractsOf(p) == IF engine = "WB" THEN p.quantity \div 100 ELSE 1

\* the state of the wheel a symbol is in
WheelState(pos, s) ==
    LET p == Count(pos, s, "CSP")
        c == Count(pos, s, "CC")
        k == Count(pos, s, "STOCK")
    IN  IF p = 0 /\ c = 0 /\ k = 0 THEN "FLAT"
        ELSE IF p = 1 /\ c = 0 /\ k = 0 THEN "SHORT_PUT"
        ELSE IF p = 0 /\ c = 0 /\ k = 1 THEN "HOLDING_STOCK"
        ELSE IF p = 0 /\ c = 1 /\ k = 1 THEN "SHORT_CALL"
        ELSE "OTHER"

WheelTransitions ==
    { << "FLAT", "SHORT_PUT" >>,
      << "SHORT_PUT", "HOLDING_STOCK" >>, << "SHORT_PUT", "FLAT" >>,
      << "HOLDING_STOCK", "SHORT_CALL" >>,
      << "SHORT_CALL", "FLAT" >>, << "SHORT_CALL", "HOLDING_STOCK" >> }

\* the step appends a trade whose action is one of `actions`
Logged(actions) ==
    /\ Len(trades') = Len(trades) + 1
    /\ trades'[Len(trades')].action \in actions

\* the step opens a position of kind t
Opened(t) ==
    /\ Len(positions') = Len(positions) + 1
    /\ positions'[Len(positions')].position_type = t

\* the driver is about to evaluate a due option of kind t (the element
\* snap[idx] of the loop)
Due(t) ==
    /\ pc \in {"manage", "expire"} /\ idx <= Len(snap)
    /\ snap[idx].position_type = t
    /\ snap[idx].expiration # NoneVal /\ date >= snap[idx].expiration

\* a put was sold for symbol s on the day being processed
SoldPutToday(s) ==
    \E i \in 1..Len(trades) :
        /\ trades[i].date = date /\ trades[i].symbol = s
        /\ trades[i].action \in {"SELL_PUT", "SELL_CSP"}

\* C1: every symbol starts FLAT and each step moves a symbol only along the
\* wheel: FLAT -> SHORT_PUT -> {HOLDING_STOCK, FLAT},
\* HOLDING_STOCK -> SHORT_CALL -> {FLAT, HOLDING_STOCK}; in particular a put
\* is sold only for a symbol with no open position at all.
C1_WheelLifecycle ==
    /\ \A s \in Symbols : WheelState(positions, s) = "FLAT"
    /\ [][ \A s \in Symbols :
             \/ WheelState(positions', s) = WheelState(positions, s)
             \/ << WheelState(positions, s), WheelState(positions',
                     s) >> \in WheelTransitions ]_vars

\* C2: in every reachable state each symbol has at most one open short put
\* and at most one open stock position.
C2_OnePutOneStock ==
    \A s \in Symbols : Count(positions, s, "CSP") <= 1 /\ Count(positions, s, "STOCK") <= 1

\* C3: in every reachable state each symbol has at most one open covered
\* call, also when it holds several stock lots.
C3_OneCoveredCall ==
    \A s \in Symbols : Count(positions, s, "CC") <= 1

\* C3 witness: a symbol holds two stock lots and one covered call on them
C3_Witness ==
    \E s \in Symbols : Count(positions, s, "STOCK") >= 2 /\ Count(positions, s, "CC") = 1

\* C4: a put sold for a symbol on the day being processed was sold on an RSI
\* reading at or below the oversold threshold; with a reading above the
\* threshold no put is sold for that symbol that day.
C4_RsiGate ==
    \A s \in Symbols :
        (pc = "entry" /\ SoldPutToday(s)) => (rsi[s] # NoneVal /\ rsi[s] <= rsi_oversold)

\* C4 witness: a put was sold on a reading equal to the threshold
C4_Witness ==
    \E s \in Symbols : pc = "entry" /\ SoldPutToday(s) /\ rsi[s] = rsi_oversold

\* C5: a due put is assigned exactly when the day's spot is strictly below its
\* strike; the assignment removes the put and opens a stock position of 100
\* shares per contract on the same symbol.
C5_PutAssignment ==
    [][ Due("CSP") =>
          LET pos  == snap[idx]
              spot == price[pos.symbol]
          IN  /\ Logged({"PUT_ASSIGNED", "ASSIGNED"}) <=> (spot # NoneVal /\ spot < StrikeOf(pos))
              /\ Logged({"PUT_ASSIGNED", "ASSIGNED"}) =>
                   /\ Count(positions', pos.symbol, "CSP") = Count(positions, pos.symbol, "CSP") - 1
                   /\ Count(positions', pos.symbol, "STOCK") = Count(positions, pos.symbol,
                           "STOCK") + 1
                   /\ Len(positions') = Len(positions)
                   /\ LET stock == positions'[Len(positions')]
                      IN  /\ stock.symbol = pos.symbol
                          /\ stock.position_type = "STOCK"
                          /\ SharesOf(stock) = 100 * ContractsOf(pos) ]_vars

\* C5 witness: the last trade is an assignment and the stock it bought is open
C5_Witness ==
    /\ trades # << >> /\ positions # << >>
    /\ trades[Len(trades)].action \in {"PUT_ASSIGNED", "ASSIGNED"}
    /\ positions[Len(positions)].position_type = "STOCK"

\* C6: a worthless expiry leaves the cash unchanged; after a put expired
\* worthless the symbol has no open position, after a call expired worthless
\* exactly its stock position remains.
C6_WorthlessExpiry ==
    [][ /\ Logged({"PUT_EXPIRED", "EXPIRED"}) =>
             capital' = capital /\ CountAll(positions', snap[idx].symbol) = 0
        /\ Logged({"CALL_EXPIRED", "CC_EXPIRED"}) =>
             /\ capital' = capital
             /\ CountAll(positions', snap[idx].symbol) = 1
             /\ Count(positions', snap[idx].symbol, "STOCK") = 1 ]_vars

(* --------------------------- reports and ledgers ------------------------ *)
\* the per-symbol accumulation of _generate_per_stock_summary over the trades
RECURSIVE WB_summarize(_, _, _)
WB_summarize(log, symbol, data) ==
    IF log = << >> THEN data
    ELSE LET trade == Head(log)
             next  ==
                 IF trade.symbol # symbol THEN data
                 ELSE IF trade.action \in {"SELL_PUT", "SELL_CALL"}
                 THEN [data EXCEPT !.total_premium = @ + trade.price * trade.quantity * 100]
                 ELSE IF trade.action = "PUT_ASSIGNED"
                 THEN [data EXCEPT !.stock_cost = @ + trade.price * trade.quantity,
                                   !.current_shares = @ + trade.quantity]
                 ELSE IF trade.action = "CALL_ASSIGNED"
                 THEN [data EXCEPT !.stock_revenue = @ + trade.price * trade.quantity,
                                   !.current_shares = Max(0, @ - trade.quantity)]
                 ELSE data
         IN  WB_summarize(Tail(log), symbol, next)

WB_generate_per_stock_summary(symbol) ==
    WB_summarize(trades, symbol,
                 [ total_premium |-> 0, stock_cost |-> 0, stock_revenue |-> 0,
                   current_shares |-> 0 ])

\* net_cost of the summary: the reported adjusted_cost_basis is
\* net_cost / current_shares
WB_net_cost(data) == data.stock_cost - data.stock_revenue - data.total_premium

\* the cash effect of one trade of the WB log
WB_trade_cash(trade) ==
    IF trade.action \in {"SELL_PUT", "SELL_CALL"} THEN trade.price * 100 * trade.quantity
    ELSE IF trade.action = "PUT_ASSIGNED" THEN 0 - trade.price * trade.quantity
    ELSE IF trade.action = "CALL_ASSIGNED" THEN trade.price * trade.quantity
    ELSE 0

\* the cash effect of the event the step logs in the FB log, whose entries
\* hold no amounts: the amounts are those of the positions involved
FB_event_cash ==
    IF Len(trades') = Len(trades) THEN 0
    ELSE LET action == trades'[Len(trades')].action
         IN  IF action \in {"SELL_CSP", "SELL_CC"}
             THEN positions'[Len(positions')].premium * 100
             ELSE IF action = "ASSIGNED" THEN 0 - snap[idx].strike * 100
             ELSE IF action = "CALLED_AWAY" THEN snap[idx].strike * 100
             ELSE 0

\* C7: the stock position an assignment opens has the cost basis strike minus
\* premium of the assigned put (FB), and the adjusted cost basis WB reports
\* for a held symbol at the end of a day, net_cost / current_shares, equals
\* strike minus premium of the assigned put of each stock position held.
C7_CostBasis ==
    /\ [][ (engine = "FB" /\ Logged({"ASSIGNED"})) =>
             positions'[Len(positions')].cost_basis = snap[idx].strike - snap[idx].premium ]_vars
    /\ [] ( (engine = "WB" /\ pc = "idle") =>
              \A i \in 1..Len(positions) :
                  positions[i].position_type = "STOCK" =>
                      LET data == WB_generate_per_stock_summary(positions[i].symbol)
                      IN  /\ data.current_shares > 0
                          /\ WB_net_cost(data) = CostBasisOf(positions[i]) * data.current_shares )

\* C8: every covered call sold has a strike at or above the cost basis per
\* share of the stock position it is written against.
C8_CallAboveCostBasis ==
    [][ Opened("CC") => StrikeOf(positions'[Len(positions')]) >= CostBasisOf(snap[idx]) ]_vars

\* C9: a due call is called away exactly when the day's spot is strictly above
\* its strike; the call-away credits strike times shares and leaves the symbol
\* with no open position.
C9_CallAway ==
    [][ Due("CC") =>
          LET pos    == snap[idx]
              spot   == price[pos.symbol]
              shares == IF engine = "WB" THEN pos.quantity ELSE 100
          IN  /\ Logged({"CALL_ASSIGNED",
                  "CALLED_AWAY"}) <=> (spot # NoneVal /\ spot > StrikeOf(pos))
              /\ Logged({"CALL_ASSIGNED", "CALLED_AWAY"}) =>
                   /\ capital' = capital + StrikeOf(pos) * shares
                   /\ CountAll(positions', pos.symbol) = 0 ]_vars

Recorded == pc = "entry" /\ pc' = "idle"

\* the portfolio value the last recording stored
LastValue(values) ==
    IF engine = "WB" THEN values[Len(values)].portfolio_value ELSE values[Len(values)]

\* indices of the open stock positions of the position list pos
StockOf(pos) == { i \in 1..Len(pos) : pos[i].position_type = "STOCK" }

\* C11: the value recorded for a day is the cash plus shares times the day's
\* spot of every open stock position (each of them has a spot that day);
\* options add nothing.
C11_PortfolioValue ==
    [][ Recorded =>
          /\ \A i \in StockOf(positions) : price[positions[i].symbol] # NoneVal
          /\ LastValue(daily_values') =
                capital + SumSeq([ i \in 1..Len(positions) |->
                                     IF i \in StockOf(positions)
                                     THEN SharesOf(positions[i]) * price[positions[i].symbol]
                                     ELSE 0 ]) ]_vars

\* a trade of the day being processed with one of the given actions is logged
LoggedToday(actions) ==
    \E i \in 1..Len(trades) : trades[i].date = date /\ trades[i].action \in actions

ExpiryEvents ==
    { "PUT_ASSIGNED", "PUT_EXPIRED", "CALL_ASSIGNED", "CALL_EXPIRED",
      "ASSIGNED", "EXPIRED", "CALLED_AWAY", "CC_EXPIRED" }

CallSales == { "SELL_CALL", "SELL_CC" }

PutSales == { "SELL_PUT", "SELL_CSP" }

\* a covered call can be sold today against the stock position p: there is a
\* spot and the engine's call selection finds a contract
CallAvailable(p) ==
    /\ price[p.symbol] # NoneVal
    /\ IF engine = "WB"
       THEN /\ p.quantity \div 100 > 0
            /\ WB_suitable_call(get_historical_options(p.symbol, price[p.symbol],
                                    WB_get_next_monthly_expiration(date)),
                                price[p.symbol]) # 0
       ELSE find_call_by_delta(price[p.symbol], p.cost_basis) # 0

\* C12: within a day no expiration or assignment is handled after a call or
\* put was sold that day, no call is sold after a put was sold that day, the
\* value is recorded last, and when the put entries start every stock
\* position (also one assigned or uncovered that same day) for which a call
\* is available is covered.
C12_DayOrder ==
    /\ [][ /\ Logged(ExpiryEvents) => ~ LoggedToday(CallSales \cup PutSales)
           /\ Logged(CallSales) => ~ LoggedToday(PutSales)
           /\ Recorded => days' = days /\ pc' = "idle" ]_vars
    /\ [] ( (pc = "entry" /\ idx = 1) =>
              \A i \in StockOf(positions) :
                  \/ Count(positions, positions[i].symbol, "CC") >= 1
                  \/ ~ CallAvailable(positions[i]) )

\* capital allocated to a symbol: initial_capital times its max_position_size
Allocation(s) ==
    LET w == watchlist(engine)
        k == CHOOSE i \in 1..Len(w) : w[i].symbol = s
    IN  (initial_capital * w[k].max_position_size) \div 1000

\* what is open on a symbol: strike times 100 per contract of an open put,
\* purchase cost of the stock held
OpenCost(pos, s) ==
    SumSeq([ i \in 1..Len(pos) |->
               IF pos[i].symbol # s THEN 0
               ELSE IF pos[i].position_type = "CSP" THEN StrikeOf(pos[i]) * 100 * ContractsOf(pos[i])
               ELSE IF pos[i].position_type = "STOCK"
               THEN (IF engine = "WB" THEN pos[i].entry_price ELSE pos[i].cost_basis) * SharesOf(pos[i])
               ELSE 0 ])

\* C13: a put is sold for a symbol only if its cost, strike * 100 * contracts,
\* together with what is already open on the symbol stays within the
\* symbol's allocation.
C13_CapitalGate ==
    [][ Opened("CSP") =>
          LET put == positions'[Len(positions')]
          IN  StrikeOf(put) * 100 * ContractsOf(put) + OpenCost(positions, put.symbol)
                <= Allocation(put.symbol) ]_vars

\* C16: when a due option's symbol has no spot that day, the step leaves the
\* position open and the cash and the trade log unchanged.
C16_MissingPriceHolds ==
    [][ (Due("CSP") \/ Due("CC")) /\ price[snap[idx].symbol] = NoneVal =>
          /\ positions' = positions
          /\ capital' = capital
          /\ trades' = trades ]_vars

\* the delta band configured for the puts of a symbol: the StockConfig's
\* min_strike_delta / max_strike_delta (WB), the run's min_delta / max_delta (FB)
ConfiguredBand(s) ==
    IF engine = "WB"
    THEN LET w == watchlist("WB")
             k == CHOOSE i \in 1..Len(w) : w[i].symbol = s
         IN  [lo |-> w[k].min_strike_delta, hi |-> w[k].max_strike_delta]
    ELSE [lo |-> min_delta, hi |-> max_delta]

\* the delta of a put of the given strike on the day being processed
PutDelta(s, strike) ==
    IF engine = "WB" THEN WB_calculate_delta(price[s], strike, TRUE)
    ELSE calculate_delta(price[s], strike, TRUE)

\* C14: every put sold has an absolute delta inside the band configured for
\* the run or symbol.
C14_DeltaBand ==
    [][ Opened("CSP") =>
          LET put   == positions'[Len(positions')]
              delta == Abs(PutDelta(put.symbol, StrikeOf(put)))
              band  == ConfiguredBand(put.symbol)
          IN  band.lo <= delta /\ delta <= band.hi ]_vars

(* ======================= put selection, as calls ======================= *)
\* the state of a backtester right after construction
Constructed ==
    /\ days = 0
    /\ date = 0
    /\ price = [s \in Symbols |-> NoneVal]
    /\ rsi = [s \in Symbols |-> NoneVal]
    /\ pc = "idle"
    /\ snap = << >>
    /\ idx = 1
    /\ positions = << >>
    /\ capital = initial_capital
    /\ trades = << >>
    /\ daily_values = << >>
    /\ premium_collected = 0
    /\ assignments = 0

\* DELTA_CONFIGS: the delta bands of the sweeps, in thousandths
DELTA_CONFIGS ==
    << [name |-> "Ultra Conservative", lo |-> 100, hi |-> 200],
       [name |-> "Conservative",       lo |-> 200, hi |-> 300],
       [name |-> "Moderate",           lo |-> 250, hi |-> 350],
       [name |-> "Aggressive",         lo |-> 300, hi |-> 400] >>

\* chains handed to the analyzer: ChainLen puts of ascending strike, each with
\* one of two bids, a delta inside or outside every band, a volume above or
\* below the liquidity floor
ChainLen == 3
SamplePut(k, bid, delta, volume) ==
    [ id            |-> [symbol |-> "F", exp_str |-> 50, letter |-> "P", strike |-> 7000 + 100 * k],
      symbol        |-> "F",
      strike        |-> 7000 + 100 * k,
      type          |-> "put",
      expiration    |-> 50,
      bid           |-> bid,
      ask           |-> (bid * 105) \div 95,
      volume        |-> volume,
      open_interest |-> 5000,
      delta         |-> delta ]

SelectInit ==
    /\ engine = "WB"
    /\ driver = "select"
    /\ Constructed
    /\ status = "ready"
    /\ cache = << >>
    /\ current = 0
    /\ results = << >>
    \* one call of either put selection: an RSI, a chain (sampled quotes or
    \* the provider's) and a delta band, or a price and a delta band
    /\ args \in
          { [fn |-> "analyze_put_opportunity", rsi_value |-> r, chain |-> c,
             min_delta |-> DELTA_CONFIGS[b].lo, max_delta |-> DELTA_CONFIGS[b].hi] :
              r \in RSIValues,
              c \in { [ k \in 1..ChainLen |-> SamplePut(k, bd[k], dl[k], v[k]) ] :
                        bd \in [1..ChainLen -> {100, 120}],
                        dl \in [1..ChainLen -> {-50, -300}],
                        v \in [1..ChainLen -> {5, 1000}] }
                    \cup { get_historical_options("F", q, 50) : q \in Prices("WB") },
              b \in 1..Len(DELTA_CONFIGS) }
          \cup
          { [fn |-> "find_put_by_delta", price |-> q,
             min_delta |-> DELTA_CONFIGS[b].lo, max_delta |-> DELTA_CONFIGS[b].hi] :
              q \in Prices("FB"), b \in 1..Len(DELTA_CONFIGS) }
    /\ out = << >>
    /\ account = NewAccount(0)

\* one call of StrategyAnalyzer.analyze_put_opportunity
Call_analyze_put_opportunity ==
    /\ driver = "select"
    /\ status = "ready"
    /\ args.fn = "analyze_put_opportunity"
    /\ out' = << analyze_put_opportunity(args.rsi_value, args.chain, args.min_delta,
            args.max_delta) >>
    /\ status' = "done"
    /\ UNCHANGED << engine, days, date, price, rsi, pc, snap, idx, positions, capital,
                    trades, daily_values, premium_collected, assignments,
                    account, driver, cache, current, results, args >>

\* one call of find_put_by_delta
Call_find_put_by_delta ==
    /\ driver = "select"
    /\ status = "ready"
    /\ args.fn = "find_put_by_delta"
    /\ out' = << find_put_by_delta(args.price, args.min_delta, args.max_delta) >>
    /\ status' = "done"
    /\ UNCHANGED << engine, days, date, price, rsi, pc, snap, idx, positions, capital,
                    trades, daily_values, premium_collected, assignments,
                    account, driver, cache, current, results, args >>

SelectSpec == SelectInit /\ [][(Call_analyze_put_opportunity \/ Call_find_put_by_delta)]_vars

\* the candidates of a call in scan order: chain indices (analyzer), strike
\* offsets in percent (find_put_by_delta)
Candidates ==
    IF args.fn = "analyze_put_opportunity" THEN 1..Len(args.chain) ELSE -30..-5

\* the candidate is a put that passes the liquidity and delta checks of the call
Qualifies(c) ==
    IF args.fn = "analyze_put_opportunity"
    THEN /\ args.chain[c].type = "put"
         /\ is_liquid(args.chain[c])
         /\ args.min_delta <= Abs(args.chain[c].delta)
         /\ Abs(args.chain[c].delta) <= args.max_delta
    ELSE LET delta == Abs(calculate_delta(args.price, RoundStrike(args.price, c), TRUE))
         IN  args.min_delta <= delta /\ delta <= args.max_delta

\* the premium the candidate would bring
BidOf(c) ==
    IF args.fn = "analyze_put_opportunity" THEN args.chain[c].bid
    ELSE calculate_premium(args.price, RoundStrike(args.price, c), TRUE)

\* C15: the put selected by either engine's selection passes the checks, no
\* qualifying put has a higher bid, and among those with the same bid it is
\* the first in ascending-strike scan order.
C15_MaxBidFirst ==
    (driver = "select" /\ status = "done" /\ out[1] # 0) =>
        /\ out[1] \in Candidates
        /\ Qualifies(out[1])
        /\ \A c \in Candidates :
             Qualifies(c) => \/ BidOf(c) < BidOf(out[1])
                             \/ BidOf(c) = BidOf(out[1]) /\ out[1] <= c

(* ========================= parameter sweeps ============================ *)
\* A sweep loads the market data once and runs one backtest per combination:
\* run_all_backtests ("comprehensive", WheelBacktester) and main of
\* run_fast_backtest ("fast", FastBacktester over the shared PriceCache).
\* The combinations of the modelled sweep all carry the configuration of this
\* module, so their rows are comparable by position in the sweep.
SweepDays == 3
SweepRuns == 2
SweepDrivers == {"comprehensive", "fast"}
\* the loaded data of one trading day: the distance to the previous trading
\* day, the closing price and the RSI of every symbol
SweepBars ==
    { [gap |-> g, price |-> [s \in Symbols |-> q], rsi |-> [s \in Symbols |-> r]] :
        g \in {1, 60}, q \in {7000, 8000}, r \in RSIValues }

\* the loaded series of a period of 1..SweepDays trading days
Caches == UNION { [1..n -> SweepBars] : n \in 1..SweepDays }

\* the engine of the next run
EngineOf(drv, started) ==
    IF drv = "fast" THEN "FB"
    ELSE IF drv = "comprehensive" THEN "WB"
    ELSE IF started = 0 THEN "WB" ELSE "FB"

\* the position list of the previous run, kept
LeftoverPositions == positions
\* self.positions of a backtester at construction
NewPositions == << >>

SweepInit ==
    /\ engine = "WB"
    /\ driver \in SweepDrivers
    /\ Constructed
    /\ status = "loading"
    /\ cache = << >>
    /\ current = 0
    /\ results = << >>
    /\ args = << >>
    /\ out = << >>
    /\ account = NewAccount(0)

\* PriceCache.load_all_data / the bars the data provider serves
Sweep_load_all_data ==
    /\ driver # "single" /\ status = "loading"
    /\ cache' \in Caches
    /\ status' = "ready"
    /\ UNCHANGED << engine, days, date, price, rsi, pc, snap, idx, positions, capital,
                    trades, daily_values, premium_collected, assignments,
                    account, driver, current, results, args, out >>

\* the loop body up to the construction of the backtester of the next combination
Sweep_start_run ==
    /\ driver # "single" /\ status = "ready" /\ current < SweepRuns
    /\ current' = current + 1
    /\ engine' = EngineOf(driver, current)
    /\ positions' = NewPositions
    /\ capital' = initial_capital
    /\ trades' = << >>
    /\ daily_values' = << >>
    /\ premium_collected' = 0
    /\ assignments' = 0
    /\ days' = 0
    /\ date' = 0
    /\ pc' = "idle"
    /\ snap' = << >>
    /\ idx' = 1
    /\ status' = "running"
    /\ UNCHANGED << price, rsi, driver, cache, results, args, out, account >>

\* the next trading day of a run, read from the loaded data
Sweep_next_day ==
    /\ driver # "single" /\ status = "running" /\ pc = "idle" /\ days < Len(cache)
    /\ date' = date + cache[days + 1].gap
    /\ price' = cache[days + 1].price
    /\ rsi' = cache[days + 1].rsi
    /\ days' = days + 1
    /\ snap' = positions
    /\ idx' = 1
    /\ pc' = IF engine = "WB" THEN "manage" ELSE "expire"
    /\ UNCHANGED aux
    /\ UNCHANGED << engine, positions, capital, trades, daily_values,
                    premium_collected, assignments >>

\* the recorded portfolio values of the run as plain numbers
ValueSeries ==
    [ i \in 1..Len(daily_values) |->
        IF engine = "WB" THEN daily_values[i].portfolio_value ELSE daily_values[i] ]

\* a/b = c/d for positive integers, by continued fractions (no products)
RECURSIVE RatioEq(_, _, _, _)
RatioEq(a, b, c, d) ==
    IF a \div b # c \div d THEN FALSE
    ELSE IF a % b = 0 \/ c % d = 0 THEN a % b = c % d
    ELSE RatioEq(b, a % b, d, c % d)

\* the daily returns have the same value: pct_change gives v[i+1]/v[i] - 1
ReturnsAllEqual(values) ==
    \A i \in 1..(Len(values) - 1) : \A j \in 1..(Len(values) - 1) :
        RatioEq(values[i + 1], values[i], values[j + 1], values[j])

\* Series.std() (ddof 1) of the daily returns: NaN below two returns
ReturnsStd(values) ==
    IF Len(values) - 1 < 2 THEN "nan"
    ELSE IF ReturnsAllEqual(values) THEN "zero"
    ELSE "positive"

\* _generate_backtest_results: `if excess_returns.std() != 0` is true of NaN,
\* and mean / NaN is NaN; "zero" is the literal 0 of the else branch
WB_sharpe_ratio(values) ==
    IF ReturnsStd(values) = "zero" THEN "zero"
    ELSE IF ReturnsStd(values) = "nan" THEN "nan"
    ELSE "computed"

\* _generate_results: `len(returns) > 0 and returns.std() > 0` is false of NaN
FB_sharpe_ratio(values) ==
    IF Len(values) - 1 > 0 /\ ReturnsStd(values) = "positive" THEN "computed"
    ELSE "zero"

\* the row a finished run contributes: BacktestResult of _generate_results /
\* of run_single_backtest
ResultRow ==
    [ final_value       |-> IF daily_values = << >> THEN initial_capital
                            ELSE LastValue(daily_values),
      sharpe_ratio      |-> IF daily_values = << >> THEN "zero"
                            ELSE IF engine = "WB" THEN WB_sharpe_ratio(ValueSeries)
                            ELSE FB_sharpe_ratio(ValueSeries),
      total_trades      |-> Len(trades),
      premium_collected |-> premium_collected,
      assignments       |-> assignments ]

\* the row of the except branch of run_single_backtest
PlaceholderRow ==
    [ final_value |-> initial_capital, sharpe_ratio |-> "zero", total_trades |-> 0,
      premium_collected |-> 0, assignments |-> 0 ]

\* the lifecycle event a trade log entry stands for
EventKind(action) ==
    IF action \in {"SELL_PUT", "SELL_CSP"} THEN "put sold"
    ELSE IF action \in {"PUT_ASSIGNED", "ASSIGNED"} THEN "put assigned"
    ELSE IF action \in {"PUT_EXPIRED", "EXPIRED"} THEN "put expired"
    ELSE IF action \in {"SELL_CALL", "SELL_CC"} THEN "call sold"
    ELSE IF action \in {"CALL_ASSIGNED", "CALLED_AWAY"} THEN "call assigned"
    ELSE "call expired"

\* the lifecycle events of symbol s in a trade log, with their days
EventsOf(log, s) ==
    LET own == SelectSeq(log, LAMBDA t : t.symbol = s)
    IN  [ i \in 1..Len(own) |-> [date |-> own[i].date, kind |-> EventKind(own[i].action)] ]

\* what a finished run of the comparison leaves: the events per symbol and the cash
OutcomeRow ==
    [ events |-> [s \in Symbols |-> EventsOf(trades, s)], cash |-> capital ]

\* bt.run(...) / backtester.run_backtest() returns and the row is appended
Sweep_run_returns ==
    /\ driver # "single" /\ status = "running" /\ pc = "idle" /\ days = Len(cache)
    /\ results' = Append(results, IF driver \in SweepDrivers THEN ResultRow ELSE OutcomeRow)
    /\ status' = IF current = SweepRuns THEN "done" ELSE "ready"
    /\ UNCHANGED << engine, days, date, price, rsi, pc, snap, idx, positions, capital,
                    trades, daily_values, premium_collected, assignments,
                    account, driver, cache, current, args, out >>

\* an exception escapes the run at the start of a trading day:
\* run_single_backtest catches it and returns the placeholder row, main of
\* run_fast_backtest has no handler and ends with the exception
Sweep_run_raises ==
    /\ driver \in SweepDrivers /\ status = "running" /\ pc = "idle" /\ days < Len(cache)
    /\ IF driver = "comprehensive"
       THEN /\ results' = Append(results, PlaceholderRow)
            /\ status' = IF current = SweepRuns THEN "done" ELSE "ready"
       ELSE /\ results' = results
            /\ status' = "aborted"
    /\ UNCHANGED << engine, days, date, price, rsi, pc, snap, idx, positions, capital,
                    trades, daily_values, premium_collected, assignments,
                    account, driver, cache, current, args, out >>

\* the handlers of a trading day, shared with the single run
WB_Handlers ==
    \/ WB_handle_option_expiration
    \/ WB_try_sell_covered_call
    \/ WB_manage_not_due
    \/ WB_manage_done
    \/ WB_find_entry_opportunity
    \/ WB_record_portfolio_value

FB_Handlers ==
    \/ FB_handle_csp_expiration
    \/ FB_handle_cc_expiration
    \/ FB_expire_not_due
    \/ FB_expire_done
    \/ FB_try_sell_cc
    \/ FB_cc_skip
    \/ FB_cc_done
    \/ FB_entry
    \/ FB_record_value

SweepSpec ==
    SweepInit /\ [][(Sweep_load_all_data \/ Sweep_start_run \/ Sweep_next_day \/
        Sweep_run_returns \/ Sweep_run_raises \/ WB_Handlers \/ FB_Handlers)]_vars

\* C17: a sweep never ends with an exception, and a finished sweep holds one
\* row per combination, whichever runs raised.
C17_SweepSurvivesFailure ==
    /\ status # "aborted"
    /\ (driver \in SweepDrivers /\ status = "done") => Len(results) = SweepRuns

\* C18: after the load phase no step writes to the shared price cache, and
\* the rows of a fast sweep's runs of one configuration over the loaded data
\* are the same at every position of the sweep.
C18_RunsIsolated ==
    /\ [][ status # "loading" => cache' = cache ]_vars
    /\ [] ( driver = "fast" =>
              \A i \in 1..Len(results) : \A j \in 1..Len(results) : results[i] = results[j] )

\* a fast sweep has finished two runs that traded over the loaded data and
\* left positions open
C18_Witness ==
    /\ driver = "fast" /\ status = "done" /\ Len(results) = SweepRuns
    /\ results[SweepRuns].total_trades > 1
    /\ positions # << >>
    /\ cache # << >>

(* ===================== the two engines side by side ==================== *)
\* One series of trading days is loaded, the WheelBacktester runs over it,
\* then the FastBacktester runs over the same series; each leaves the events
\* per symbol and its cash. The series has 1..SweepDays days, so the cash is
\* compared after each day.
PairInit ==
    /\ engine = "WB"
    /\ driver = "pair"
    /\ Constructed
    /\ status = "loading"
    /\ cache = << >>
    /\ current = 0
    /\ results = << >>
    /\ args = << >>
    /\ out = << >>
    /\ account = NewAccount(0)

PairSpec ==
    PairInit /\ [][(Sweep_load_all_data \/ Sweep_start_run \/ Sweep_next_day \/
        Sweep_run_returns \/ WB_Handlers \/ FB_Handlers)]_vars

\* C19: over the same trading days, prices and RSI values the WheelBacktester
\* and the FastBacktester log for every symbol the same lifecycle events on
\* the same days and end every day with the same cash.
C19_EnginesAgree ==
    (driver = "pair" /\ status = "done") =>
        /\ \A s \in Symbols : results[1].events[s] = results[2].events[s]
        /\ results[1].cash = results[2].cash

(* ========================= the roll decision =========================== *)
RollMaxDays == 20
\* should_roll_option as its tests describe it: an at-risk (in-the-money)
\* option is rolled while more than 5 days remain
should_roll_option_at_risk(days_to_expiry, current_strike, current_price, is_put) ==
    IF days_to_expiry > 5
    THEN (is_put /\ current_price < current_strike) \/ (~ is_put /\ current_price > current_strike)
    ELSE IF is_put /\ current_price > current_strike THEN TRUE
    ELSE IF ~ is_put /\ current_price < current_strike THEN TRUE
    ELSE FALSE

\* should_roll_option with the at-the-money put taken for out-of-the-money
should_roll_option_at_the_money(days_to_expiry, current_strike, current_price, is_put) ==
    IF days_to_expiry > 5 THEN FALSE
    ELSE IF is_put /\ current_price >= current_strike THEN TRUE
    ELSE IF ~ is_put /\ current_price < current_strike THEN TRUE
    ELSE FALSE

\* StrategyAnalyzer.should_roll_option: the flag of the returned pair
should_roll_option(days_to_expiry, current_strike, current_price, is_put) ==
    IF days_to_expiry > 5 THEN FALSE
    ELSE IF is_put /\ current_price > current_strike THEN TRUE
    ELSE IF ~ is_put /\ current_price < current_strike THEN TRUE
    ELSE FALSE

\* the roll check of WheelBot._check_positions: the value of should_roll
check_positions_should_roll(days_to_expiry, strike_price, current_price, is_put) ==
    IF days_to_expiry <= 5
    THEN IF is_put /\ current_price > strike_price THEN TRUE
         ELSE IF ~ is_put /\ current_price < strike_price THEN TRUE
         ELSE FALSE
    ELSE FALSE

RollInit ==
    /\ engine = "WB"
    /\ driver = "roll"
    /\ Constructed
    /\ status = "ready"
    /\ cache = << >>
    /\ current = 0
    /\ results = << >>
    \* one roll decision: days to expiry, strike and price in cents, put or call
    /\ args \in
          { [fn |-> f, days_to_expiry |-> n, strike |-> k, price |-> q, is_put |-> b] :
              f \in {"should_roll_option", "_check_positions"},
              n \in -1..RollMaxDays, k \in {7000, 7500}, q \in {7000, 7500, 8000},
              b \in BOOLEAN }
    /\ out = << >>
    /\ account = NewAccount(0)

\* one call of StrategyAnalyzer.should_roll_option
Call_should_roll_option ==
    /\ driver = "roll" /\ status = "ready"
    /\ args.fn = "should_roll_option"
    /\ out' = << should_roll_option(args.days_to_expiry, args.strike, args.price, args.is_put) >>
    /\ status' = "done"
    /\ UNCHANGED << engine, days, date, price, rsi, pc, snap, idx, positions, capital,
                    trades, daily_values, premium_collected, assignments,
                    account, driver, cache, current, results, args >>

\* one pass of the roll check of WheelBot._check_positions over a position
Call_check_positions ==
    /\ driver = "roll" /\ status = "ready"
    /\ args.fn = "_check_positions"
    /\ out' = << check_positions_should_roll(args.days_to_expiry, args.strike, args.price,
            args.is_put) >>
    /\ status' = "done"
    /\ UNCHANGED << engine, days, date, price, rsi, pc, snap, idx, positions, capital,
                    trades, daily_values, premium_collected, assignments,
                    account, driver, cache, current, results, args >>

RollSpec == RollInit /\ [][(Call_should_roll_option \/ Call_check_positions)]_vars

\* the option of the call is out-of-the-money
OutOfTheMoney ==
    IF args.is_put THEN args.price > args.strike ELSE args.price < args.strike

Rsi(num, den) == [num |-> num, den |-> den]
RsiDefined(r) == r.den > 0
RsiAbove(r, threshold) == r.num > threshold * r.den
RsiBelow(r, threshold) == r.num < threshold * r.den

\* close.diff() of the rows the rolling window of 14 ends on
LastDiffs(closes) ==
    [ i \in 1..14 |-> closes[Len(closes) - 14 + i] - closes[Len(closes) - 15 + i] ]

\* 14 times the last rolling mean of the gains / of the losses
GainSum(closes) ==
    SumSeq([ i \in 1..14 |-> IF LastDiffs(closes)[i] > 0 THEN LastDiffs(closes)[i] ELSE 0 ])
LossSum(closes) ==
    SumSeq([ i \in 1..14 |-> IF LastDiffs(closes)[i] < 0 THEN 0 - LastDiffs(closes)[i] ELSE 0 ])

\* 100 - 100 / (1 + gain / loss) in float arithmetic: 0/0 is NaN, x/0 is inf
RsiOf(gain, loss) ==
    IF loss = 0 THEN (IF gain = 0 THEN (Rsi(0, 0)) ELSE Rsi(100, 1))
    ELSE Rsi(100 * gain, gain + loss)

\* StrategyAnalyzer._calculate_rsi over the closes of price_data
calculate_rsi(closes) ==
    IF Len(closes) < 14 + 1 THEN Rsi(50, 1)
    ELSE LET rsi_last == RsiOf(GainSum(closes), LossSum(closes))
         IN  IF rsi_last = (Rsi(0, 0)) THEN Rsi(50, 1) ELSE rsi_last

\* PriceCache.get_rsi over the closes cached up to the date (cents): a zero
\* mean loss is replaced by 0.0001 dollars
get_rsi(closes) ==
    LET df == IF Len(closes) > 24 THEN SubSeq(closes, Len(closes) - 23, Len(closes)) ELSE closes
    IN  IF Len(df) < 14 + 1 THEN (Rsi(0, -1))
        ELSE IF LossSum(df) = 0
             THEN Rsi(10000 * GainSum(df), 100 * GainSum(df) + 14)
             ELSE Rsi(100 * GainSum(df), GainSum(df) + LossSum(df))

(* =================== the live bot: open option positions =============== *)
\* StrategyAnalyzer() as WheelBot constructs it: the default threshold
Bot_rsi_oversold == 45

\* StrategyAnalyzer.should_take_profit for an option position (amounts in cents)
should_take_profit(premium_received, current_option_price, contracts) ==
    IF premium_received <= 0 THEN FALSE
    ELSE LET cost_to_close == current_option_price * contracts * 100
         IN  \/ (premium_received - cost_to_close) * 100 >= 60 * premium_received
             \/ current_option_price <= 5

\* analyze_put_opportunity of the bot's analyzer over the closes of price_data;
\* the liquidity floors differ from the backtester's in open interest only
Bot_analyze_put_opportunity(closes, chain, lo, hi) ==
    IF closes = << >> \/ chain = << >> THEN 0
    ELSE IF RsiAbove(calculate_rsi(closes), Bot_rsi_oversold) THEN 0
    ELSE BestPut(chain, 1, 0, -1, lo, hi)

\* the loop of analyze_call_opportunity from element i on (0: None)
RECURSIVE BestCall(_, _, _, _, _, _, _)
BestCall(chain, i, best, best_score, cost_basis, lo, hi) ==
    IF i > Len(chain) THEN best
    ELSE LET option == chain[i]
             take   == /\ option.type # "put"
                       /\ (option.type = "call" \/ IdContains(option.id, "C"))
                       /\ is_liquid(option)
                       /\ ~ (option.strike < cost_basis)
                       /\ lo <= option.delta /\ option.delta <= hi
                       /\ option.bid > best_score
         IN  IF take
             THEN BestCall(chain, i + 1, i, option.bid, cost_basis, lo, hi)
             ELSE BestCall(chain, i + 1, best, best_score, cost_basis, lo, hi)

\* StrategyAnalyzer.analyze_call_opportunity with its default band 0.15..0.40
analyze_call_opportunity(cost_basis, chain) ==
    IF chain = << >> THEN 0 ELSE BestCall(chain, 1, 0, -1, cost_basis, 150, 400)

\* a call of the roll chain
SampleCall(k, bid, delta, volume) ==
    [ id            |-> [symbol |-> "F", exp_str |-> 50, letter |-> "C", strike |-> 7000 + 500 * k],
      symbol        |-> "F",
      strike        |-> 7000 + 500 * k,
      type          |-> "call",
      expiration    |-> 50,
      bid           |-> bid,
      ask           |-> (bid * 105) \div 95,
      volume        |-> volume,
      open_interest |-> 5000,
      delta         |-> delta ]

\* the orders of one pass of _check_positions over an option position:
\* contract 0 is the held contract, k > 0 the k-th contract of the roll chain
check_option_position(a) ==
    IF ~ a.sync_ok THEN << >>
    ELSE IF a.history = << >> THEN << >>
    ELSE IF ~ a.found THEN << >>
    ELSE LET current_price == a.history[Len(a.history)]
             should_roll == check_positions_should_roll(a.days_to_expiry, a.strike,
                                                        current_price, a.is_put)
             new_option == IF a.is_put
                           THEN Bot_analyze_put_opportunity(a.history, a.chain, 200, 450)
                           ELSE analyze_call_opportunity(a.entry_price, a.chain)
         IN  IF should_take_profit(a.premium_received, a.ask, 1) /\ a.can_day_trade
             THEN << [side |-> "buy", contract |-> 0] >>
             ELSE IF should_roll /\ a.chain # << >>
             THEN IF ~ a.can_day_trade THEN << >>
                  ELSE IF new_option # 0
                  THEN << [side |-> "buy", contract |-> 0],
                          [side |-> "sell", contract |-> new_option] >>
                  ELSE << >>
             ELSE << >>

CheckInit ==
    /\ engine = "WB"
    /\ driver = "check"
    /\ Constructed
    /\ status = "ready"
    /\ cache = << >>
    /\ current = 0
    /\ results = << >>
    \* what one pass over an option position meets: the sync's outcome, the
    \* price history of get_price_history(symbol, days=1), the quote of the
    \* held option, and the chain served for 21..45 days out
    /\ args \in
          { [ sync_ok |-> y, history |-> h, days_to_expiry |-> n, strike |-> 7500,
              entry_price |-> 7500, is_put |-> b, found |-> f, ask |-> k,
              premium_received |-> 10000, can_day_trade |-> t, chain |-> c ] :
              y \in BOOLEAN,
              h \in { << >> } \cup { << q >> : q \in {7000, 7500, 8000} }
                    \cup { << 7500, q >> : q \in {7000, 7500, 8000} },
              n \in {4, 5, 6}, b \in BOOLEAN, f \in BOOLEAN, k \in {5, 80}, t \in BOOLEAN,
              c \in { << >> } \cup
                    { << SamplePut(1, 100, dl, v), SampleCall(3, 100, 0 - dl, v) >> :
                        dl \in {-50, -300}, v \in {5, 1000} } }
    /\ out = << >>
    /\ account = NewAccount(0)

\* one pass of the loop of _check_positions over an option position
Call_check_option_position ==
    /\ driver = "check" /\ status = "ready"
    /\ out' = << check_option_position(args) >>
    /\ status' = "done"
    /\ UNCHANGED << engine, days, date, price, rsi, pc, snap, idx, positions, capital,
                    trades, daily_values, premium_collected, assignments,
                    account, driver, cache, current, results, args >>

CheckSpec == CheckInit /\ [][(Call_check_option_position)]_vars

\* the chain holds a liquid put whose |delta| is inside the band
HasLiquidPutInBand(chain, lo, hi) ==
    \E i \in 1..Len(chain) :
        /\ chain[i].type = "put" /\ is_liquid(chain[i])
        /\ lo <= Abs(chain[i].delta) /\ Abs(chain[i].delta) <= hi

\* the orders are a roll: buy the held contract to close, sell a replacement
IsRoll(orders) ==
    /\ Len(orders) = 2
    /\ orders[1] = [side |-> "buy", contract |-> 0]
    /\ orders[2].side = "sell" /\ orders[2].contract > 0

\* C21: a held short put that is out-of-the-money with at most 5 days to
\* expiry is rolled in the cycle (buy to close, sell the replacement) whenever
\* day trading is permitted and the roll chain holds a liquid put inside the
\* delta band.
C21_BotRollsPut ==
    ( /\ driver = "check" /\ status = "done"
      /\ args.sync_ok /\ args.history # << >>
      /\ args.is_put /\ args.days_to_expiry <= 5
      /\ args.history[Len(args.history)] > args.strike
      /\ args.can_day_trade
      /\ HasLiquidPutInBand(args.chain, 200, 450) )
    => IsRoll(out[1])

(* ================= the roll decision far from expiry =================== *)
\* the option of the call is in-the-money
InTheMoney ==
    IF args.is_put THEN args.price < args.strike ELSE args.price > args.strike

RunReturned ==
    /\ driver \in SweepDrivers /\ status \in {"ready", "done"}
    /\ Len(results) = current /\ current > 0
    /\ days = Len(cache)

\* C23: the Sharpe ratio of a result is exactly 0 whenever the standard
\* deviation of the run's daily returns is zero or undefined, in both engines.
C23_SharpeZero ==
    (RunReturned /\ ReturnsStd(ValueSeries) \in {"zero", "nan"}) =>
        results[Len(results)].sharpe_ratio = "zero"

(* ======================== RSI, as calls ================================ *)
RsiMaxLen == 17
\* the i-th close of a series of n closes of the given shape, in cents
CloseAt(shape, n, i) ==
    IF shape = "flat" THEN 7000
    ELSE IF shape = "rising" THEN 7000 + 10 * i
    ELSE IF shape = "declining" THEN 9000 - 10 * i
    ELSE IF shape = "zigzag" THEN 7000 + 30 * (i % 2) + i
    ELSE IF i = n THEN 7000 ELSE 7000 + 10 * i

RsiInit ==
    /\ engine = "WB"
    /\ driver = "rsi"
    /\ Constructed
    /\ status = "ready"
    /\ cache = << >>
    /\ current = 0
    /\ results = << >>
    \* one call of either RSI on a series of 0..RsiMaxLen closes
    /\ args \in
          { [fn |-> f, closes |-> c] :
              f \in {"_calculate_rsi", "get_rsi"},
              c \in { [ i \in 1..n |-> CloseAt(sh, n, i) ] :
                        sh \in {"flat", "rising", "declining", "zigzag", "late drop"},
                        n \in 0..RsiMaxLen } }
    /\ out = << >>
    /\ account = NewAccount(0)

\* one call of StrategyAnalyzer._calculate_rsi
Call_calculate_rsi ==
    /\ driver = "rsi" /\ status = "ready" /\ args.fn = "_calculate_rsi"
    /\ out' = << calculate_rsi(args.closes) >>
    /\ status' = "done"
    /\ UNCHANGED << engine, days, date, price, rsi, pc, snap, idx, positions, capital,
                    trades, daily_values, premium_collected, assignments,
                    account, driver, cache, current, results, args >>

\* one call of PriceCache.get_rsi
Call_get_rsi ==
    /\ driver = "rsi" /\ status = "ready" /\ args.fn = "get_rsi"
    /\ out' = << get_rsi(args.closes) >>
    /\ status' = "done"
    /\ UNCHANGED << engine, days, date, price, rsi, pc, snap, idx, positions, capital,
                    trades, daily_values, premium_collected, assignments,
                    account, driver, cache, current, results, args >>

RsiSpec == RsiInit /\ [][(Call_calculate_rsi \/ Call_get_rsi)]_vars

\* every close of the series is below the one before
StrictlyDeclining(closes) == \A i \in 1..(Len(closes) - 1) : closes[i + 1] < closes[i]

\* the value is 100 or a capped value just below it
HundredOrCapped(r) == RsiDefined(r) /\ RsiAbove(r, 99) /\ ~ RsiAbove(r, 100)

\* C24: both RSI computations return a defined value for every series: the
\* neutral 50 below 15 closes, 100 or a capped value when the average loss is
\* zero (flat or only rising), a value below 30 for a strictly declining
\* series of 15 closes.
C24_RsiDefined ==
    (driver = "rsi" /\ status = "done") =>
        /\ RsiDefined(out[1])
        /\ Len(args.closes) < 15 => out[1] = Rsi(50, 1)
        /\ (Len(args.closes) >= 15 /\ LossSum(args.closes) = 0) => HundredOrCapped(out[1])
        /\ (Len(args.closes) = 15 /\ StrictlyDeclining(args.closes)) => RsiBelow(out[1], 30)

(* ===================== option pricing, as calls ======================== *)
PricerInit ==
    /\ engine = "WB"
    /\ driver = "pricer"
    /\ Constructed
    /\ status = "ready"
    /\ cache = << >>
    /\ current = 0
    /\ results = << >>
    \* spot and strike handed to the pricers, in cents: degenerate and regular
    /\ args \in
          { [fn |-> f, spot |-> q, strike |-> k, is_put |-> b] :
              f \in { "_calculate_delta", "_calculate_option_premium",
                      "calculate_delta", "calculate_premium" },
              q \in {-100, 0, 7000, 7500, 8000}, k \in {-100, 0, 6650, 7000, 7600},
              b \in BOOLEAN }
    /\ out = << >>
    /\ account = NewAccount(0)

\* one call of a pricer of AlpacaHistoricalDataProvider
Call_provider_pricer ==
    /\ driver = "pricer" /\ status = "ready"
    /\ args.fn \in {"_calculate_delta", "_calculate_option_premium"}
    /\ out' = << IF args.fn = "_calculate_delta"
                 THEN WB_calculate_delta(args.spot, args.strike, args.is_put)
                 ELSE WB_calculate_option_premium(args.spot, args.strike, args.is_put) >>
    /\ status' = "done"
    /\ UNCHANGED << engine, days, date, price, rsi, pc, snap, idx, positions, capital,
                    trades, daily_values, premium_collected, assignments,
                    account, driver, cache, current, results, args >>

\* one call of a pricer of run_fast_backtest
Call_fast_pricer ==
    /\ driver = "pricer" /\ status = "ready"
    /\ args.fn \in {"calculate_delta", "calculate_premium"}
    /\ out' = << IF args.fn = "calculate_delta"
                 THEN calculate_delta(args.spot, args.strike, args.is_put)
                 ELSE calculate_premium(args.spot, args.strike, args.is_put) >>
    /\ status' = "done"
    /\ UNCHANGED << engine, days, date, price, rsi, pc, snap, idx, positions, capital,
                    trades, daily_values, premium_collected, assignments,
                    account, driver, cache, current, results, args >>

PricerSpec == PricerInit /\ [][(Call_provider_pricer \/ Call_fast_pricer)]_vars

\* the delta bands a put or call is selected in: the sweep bands and the
\* analyzer's defaults
SellingBands ==
    { [lo |-> DELTA_CONFIGS[b].lo, hi |-> DELTA_CONFIGS[b].hi] : b \in 1..Len(DELTA_CONFIGS) }
    \cup { [lo |-> 200, hi |-> 450], [lo |-> 150, hi |-> 400] }

\* C25: for a spot or strike that is zero or negative the pricers of both
\* engines return the zero value, for premium and for delta, so that the
\* delta falls inside no delta band.
C25_DegenerateZero ==
    (driver = "pricer" /\ status = "done" /\ (args.spot <= 0 \/ args.strike <= 0)) =>
        /\ out[1] = 0
        /\ args.fn \in {"_calculate_delta", "calculate_delta"} =>
             \A band \in SellingBands : ~ (band.lo <= Abs(out[1]) /\ Abs(out[1]) <= band.hi)

(* ================== price history with retries ========================= *)
\* what client.get_stock_bars does on a call: it returns bars, returns
\* nothing usable, or raises with the given message
ClientCalls == 4
max_retries == 3

\* every exception counts as a rate-limit error
is_any_error(outcome) == outcome \notin {"bars", "no bars"}
\* "429" in error_msg or "too many requests" in error_msg or "rate limit" in error_msg,
\* on the lower-cased message
is_rate_limit(outcome) ==
    outcome \in {"429 Client Error", "Too Many Requests", "rate limit exceeded"}

\* retry_delay: 1 at first, doubled after each sleep
retry_delay == IF results = << >> THEN 1 ELSE results[Len(results)].retry_delay

HistoryInit ==
    /\ engine = "WB"
    /\ driver = "history"
    /\ Constructed
    /\ status = "running"
    /\ cache = << >>
    /\ current = 0
    /\ results = << >>
    /\ args \in [1..ClientCalls -> { "bars", "no bars", "429 Client Error",
            "Too Many Requests", "rate limit exceeded", "connection timed out" }]
    /\ out = << >>
    /\ account = NewAccount(0)

\* an attempt of the loop whose client call returns: bars.df or an empty frame
History_attempt_returns ==
    /\ driver = "history" /\ status = "running" /\ current < max_retries
    /\ args[current + 1] \in {"bars", "no bars"}
    /\ current' = current + 1
    /\ out' = << IF args[current + 1] = "bars" THEN "df" ELSE "empty" >>
    /\ status' = "done"
    /\ UNCHANGED << engine, days, date, price, rsi, pc, snap, idx, positions, capital,
                    trades, daily_values, premium_collected, assignments,
                    account, driver, cache, results, args >>

\* an attempt whose client call raises a rate-limit error: sleep, double, continue
History_attempt_rate_limited ==
    /\ driver = "history" /\ status = "running" /\ current < max_retries
    /\ args[current + 1] \notin {"bars", "no bars"}
    /\ is_rate_limit(args[current + 1])
    /\ current' = current + 1
    /\ results' = Append(results, [slept |-> retry_delay, retry_delay |-> retry_delay * 2])
    /\ UNCHANGED << engine, days, date, price, rsi, pc, snap, idx, positions, capital,
                    trades, daily_values, premium_collected, assignments,
                    account, driver, status, cache, args, out >>

\* an attempt whose client call raises anything else: empty frame at once
History_attempt_fails ==
    /\ driver = "history" /\ status = "running" /\ current < max_retries
    /\ args[current + 1] \notin {"bars", "no bars"}
    /\ ~ is_rate_limit(args[current + 1])
    /\ current' = current + 1
    /\ out' = << "empty" >>
    /\ status' = "done"
    /\ UNCHANGED << engine, days, date, price, rsi, pc, snap, idx, positions, capital,
                    trades, daily_values, premium_collected, assignments,
                    account, driver, cache, results, args >>

\* the loop is exhausted: "Max retries exceeded", empty frame
History_max_retries_exceeded ==
    /\ driver = "history" /\ status = "running" /\ ~ (current < max_retries)
    /\ out' = << "empty" >>
    /\ status' = "done"
    /\ UNCHANGED << engine, days, date, price, rsi, pc, snap, idx, positions, capital,
                    trades, daily_values, premium_collected, assignments,
                    account, driver, cache, current, results, args >>

HistorySpec ==
    HistoryInit /\ [][(History_attempt_returns \/ History_attempt_rate_limited \/
        History_attempt_fails \/ History_max_retries_exceeded)]_vars

\* the client calls made so far that raised a rate-limit error
RateLimited(n) ==
    { i \in 1..n : args[i] \in {"429 Client Error", "Too Many Requests", "rate limit exceeded"} }

\* C26: get_price_history makes at most 3 attempts, goes on to another
\* attempt only after a rate-limit error, sleeping 1, 2, 4 seconds, and ends
\* with the frame of the bars or with an empty frame: at once when the client
\* returns or raises any other error, and after the third rate-limited attempt.
C26_RetryOnlyRateLimit ==
    driver = "history" =>
        /\ current <= 3
        /\ \A i \in 1..current : i < current => i \in RateLimited(current)
        /\ Len(results) = Cardinality(RateLimited(current))
        /\ \A i \in 1..Len(results) : results[i].slept = 2 ^ (i - 1)
        /\ status = "done" =>
             /\ out \in { << "df" >>, << "empty" >> }
             /\ out = << "df" >> <=> args[current] = "bars"
             /\ current < 3 => current \notin RateLimited(current)

\* three rate-limited attempts, three sleeps, then the empty frame
C26_Witness ==
    /\ driver = "history" /\ status = "done"
    /\ current = 3 /\ Len(results) = 3 /\ results[3].slept = 4
    /\ out = << "empty" >>

\* ---------------------------------------------------------------------------
\* AccountManager: pattern-day-trader tracking (dollars)
\* ---------------------------------------------------------------------------

\* how many update_pdt_status calls a behaviour makes
MaxUpdates == 3

\* PDTConfig.threshold and PDTConfig.max_day_trades
pdt_threshold == 25000
pdt_max_day_trades == 3

\* a restriction that forgets the is_pattern_day_trader flag
is_pdt_restricted_unflagged(a) == a.equity < pdt_threshold
\* _is_pdt_restricted: False once flagged, else equity < threshold
is_pdt_restricted(a) ==
    IF a.is_pattern_day_trader THEN FALSE ELSE a.equity < pdt_threshold

\* would_exceed_day_trades
would_exceed_day_trades(a) ==
    IF ~is_pdt_restricted(a) THEN FALSE
    ELSE a.daytrade_count >= pdt_max_day_trades

\* can_day_trade: the boolean and which of the three messages is returned
can_day_trade(a) ==
    IF ~is_pdt_restricted(a) THEN << TRUE, "not subject" >>
    ELSE IF a.daytrade_count >= pdt_max_day_trades THEN << FALSE, "limit reached" >>
    ELSE << TRUE, "allowed" >>

AccountInit ==
    /\ engine = "WB"
    /\ driver = "account"
    /\ Constructed
    /\ status = "running"
    /\ cache = << >>
    /\ current = 0
    /\ results = << >>
    /\ args = << >>
    /\ out = << >>
    /\ \E total_balance \in {20000, 50000} : account = NewAccount(total_balance)

\* update_pdt_status(equity, daytrade_count, is_pattern_day_trader)
Account_update_pdt_status ==
    /\ driver = "account" /\ current < MaxUpdates
    /\ \E equity \in {0, 20000, 24999, 25000, 25001, 50000}, daytrade_count \in (0..4),
          is_pattern_day_trader \in BOOLEAN :
          account' = [ account EXCEPT !.equity = equity,
                                      !.daytrade_count = daytrade_count,
                                      !.is_pattern_day_trader = is_pattern_day_trader ]
    /\ current' = current + 1
    /\ UNCHANGED << engine, days, date, price, rsi, pc, snap, idx, positions, capital,
                    trades, daily_values, premium_collected, assignments,
                    driver, status, cache, results, args, out >>

\* a call of can_day_trade() on the account as it stands; out keeps the
\* account the call saw next to what it returned
Account_can_day_trade ==
    /\ driver = "account"
    /\ out' = << "can_day_trade", account, can_day_trade(account) >>
    /\ UNCHANGED << engine, days, date, price, rsi, pc, snap, idx, positions, capital,
                    trades, daily_values, premium_collected, assignments,
                    account, driver, status, cache, current, results, args >>

\* a call of would_exceed_day_trades() on the account as it stands
Account_would_exceed_day_trades ==
    /\ driver = "account"
    /\ out' = << "would_exceed_day_trades", account, would_exceed_day_trades(account) >>
    /\ UNCHANGED << engine, days, date, price, rsi, pc, snap, idx, positions, capital,
                    trades, daily_values, premium_collected, assignments,
                    account, driver, status, cache, current, results, args >>

AccountSpec ==
    AccountInit /\ [][(Account_update_pdt_status \/ Account_can_day_trade \/
        Account_would_exceed_day_trades)]_vars

\* the account is not flagged, under the threshold and out of day trades
PdtBlocked(a) ==
    /\ ~a.is_pattern_day_trader
    /\ a.equity < pdt_threshold
    /\ a.daytrade_count >= pdt_max_day_trades

\* C27: after any sequence of update_pdt_status calls can_day_trade returns
\* False exactly when the account is not flagged as pattern day trader, its
\* equity is below the threshold and daytrade_count >= max_day_trades, and
\* would_exceed_day_trades() is the negation of can_day_trade()'s boolean;
\* a value either call has returned is the one this rule gives
C27_DayTradeGate ==
    driver = "account" =>
        /\ can_day_trade(account)[1] = ~PdtBlocked(account)
        /\ would_exceed_day_trades(account) = ~can_day_trade(account)[1]
        /\ (out # << >> /\ out[1] = "can_day_trade") => out[3][1] = ~PdtBlocked(out[2])
        /\ (out # << >> /\ out[1] = "would_exceed_day_trades") =>
               out[3] = PdtBlocked(out[2])

\* C27 witness: after a second update left the account blocked, can_day_trade
\* has returned False
C27_Witness ==
    /\ driver = "account" /\ current >= 2
    /\ PdtBlocked(account)
    /\ out = << "can_day_trade", account, << FALSE, "limit reached" >> >>

\* ---------------------------------------------------------------------------
\* AccountManager.get_max_contracts (dollars, position sizes in percent)
\* ---------------------------------------------------------------------------

\* how many positions the account holds at most
MaxHeld == 2

\* AccountManager.__init__: max_position_size = 0.2
default_position_size == 20

\* existing_symbol = None: no symbol given
NoSymbol == "None"

\* Position.total_cost
total_cost(p) ==
    IF p.position_type = "stock" THEN p.entry_price * p.quantity
    ELSE IF p.strike_price = NoneVal THEN 0
    ELSE p.strike_price * 100 * p.contracts

\* int(a / b) for b > 0: truncation toward zero
TruncDiv(a, b) == IF a >= 0 THEN a \div b ELSE -((-a) \div b)

\* next((p for p in self.positions if p.symbol == symbol), None): the index of
\* the first position on the symbol, 0 when there is none
FirstOn(held, symbol) ==
    IF \E i \in 1..Len(held) : held[i].symbol = symbol
    THEN CHOOSE i \in 1..Len(held) :
            /\ held[i].symbol = symbol
            /\ \A j \in 1..(i - 1) : held[j].symbol # symbol
    ELSE 0

\* get_max_contracts(strike_price, existing_symbol, position_size_override) on
\* an account of the given balance and positions; a falsy override (None or
\* 0) gives the default size
get_max_contracts(total_balance, held, strike_price, existing_symbol, position_size_override) ==
    LET contract_cost == strike_price * 100
        size_pct == IF position_size_override # NoneVal /\ position_size_override # 0
                    THEN position_size_override ELSE default_position_size
        allocation == (total_balance * size_pct) \div 100
        first == IF existing_symbol = NoSymbol THEN 0 ELSE FirstOn(held, existing_symbol)
        max_position_cost == IF first = 0 THEN allocation
                             ELSE allocation - total_cost(held[first])
    IN  Max(0, TruncDiv(max_position_cost, contract_cost))

ContractInit ==
    /\ engine = "WB"
    /\ driver = "contracts"
    /\ Constructed
    /\ status = "ready"
    /\ cache = << >>
    /\ current = 0
    /\ results = << >>
    \* the account's balance and positions (stock, covered call, short put
    \* without a strike) and the arguments of the call
    /\ args \in
          [ total_balance : {100000},
            positions : UNION { [1..n ->
                { [ symbol |-> "AAPL", position_type |-> "stock", entry_price |-> 150,
                    quantity |-> 100, strike_price |-> NoneVal, contracts |-> 1 ],
                  [ symbol |-> "AAPL", position_type |-> "call", entry_price |-> 2,
                    quantity |-> 1, strike_price |-> 40, contracts |-> 1 ],
                  [ symbol |-> "AMD", position_type |-> "stock", entry_price |-> 100,
                    quantity |-> 100, strike_price |-> NoneVal, contracts |-> 1 ],
                  [ symbol |-> "AMD", position_type |-> "put", entry_price |-> 1,
                    quantity |-> 1, strike_price |-> NoneVal, contracts |-> 2 ] }] :
                n \in 0..MaxHeld },
            strike_price : {10, 50, 150},
            existing_symbol : {NoSymbol, "AAPL", "AMD"},
            position_size_override : {NoneVal, 0, 10, 30} ]
    /\ out = << >>
    /\ account = NewAccount(args.total_balance)

Call_get_max_contracts ==
    /\ driver = "contracts" /\ status = "ready"
    /\ out' = << get_max_contracts(args.total_balance, args.positions, args.strike_price,
                                   args.existing_symbol, args.position_size_override) >>
    /\ status' = "done"
    /\ UNCHANGED << engine, days, date, price, rsi, pc, snap, idx, positions, capital,
                    trades, daily_values, premium_collected, assignments,
                    account, driver, cache, current, results, args >>

ContractSpec == ContractInit /\ [][(Call_get_max_contracts)]_vars

\* the total cost of every position held on the symbol
CostOn(held, symbol) ==
    SumSeq([ i \in 1..Len(held) |->
               IF held[i].symbol = symbol THEN total_cost(held[i]) ELSE 0 ])

\* total_balance x position size (the override when given, else the default)
\* minus what is already held on the symbol
Remaining(a) ==
    (a.total_balance * (IF a.position_size_override = NoneVal
                        THEN default_position_size
                        ELSE a.position_size_override)) \div 100
    - (IF a.existing_symbol = NoSymbol THEN 0 ELSE CostOn(a.positions, a.existing_symbol))

\* C28: get_max_contracts returns the largest n >= 0 with n x strike x 100 not
\* above total_balance x position size minus the total cost of the positions
\* already held on that symbol, and 0 when nothing remains; positions on other
\* symbols do not count
C28_MaxContracts ==
    (driver = "contracts" /\ status = "done") =>
        IF Remaining(args) <= 0 THEN out[1] = 0
        ELSE /\ out[1] >= 0
             /\ out[1] * args.strike_price * 100 <= Remaining(args)
             /\ (out[1] + 1) * args.strike_price * 100 > Remaining(args)

\* ---------------------------------------------------------------------------
\* WheelBot._look_for_entries over AlpacaService (symbols as character
\* sequences, dollars)
\* ---------------------------------------------------------------------------

\* config.watchlist: the symbols the bot looks at, in order
AMD == << "A", "M", "D" >>
F == << "F" >>
BotWatchlist == << AMD, F >>

\* the 15 characters an option contract's symbol adds to its underlying:
\* yymmdd, P or C, eight digits of strike
OccSuffix ==
    << "2", "6", "0", "1", "0", "9", "P", "0", "0", "2", "1", "0", "0", "0", "0" >>

\* AlpacaConfig.max_contracts_per_symbol
max_contracts_per_symbol == 1

\* AlpacaService.get_orders: every exception of the trading client is caught
\* and an empty list is returned
Alpaca_get_orders(orders_call, open_orders) ==
    IF orders_call = "raises" THEN {} ELSE open_orders

\* symbol[:-15] when len(symbol) > 15, else the symbol
Underlying(symbol) ==
    IF Len(symbol) > 15 THEN SubSeq(symbol, 1, Len(symbol) - 15) ELSE symbol

\* pending_symbols
PendingSymbols(pending_orders) == { Underlying(order.symbol) : order \in pending_orders }

Min(a, b) == IF a <= b THEN a ELSE b

\* one turn of the loop over the watchlist: the service calls made for the
\* stock, in order. AlpacaService.get_position gives a Position only when
\* the client returns one (None when it raises); get_price_history gives an
\* empty frame when the source has no rows or raises. The balance is 100000
\* and the stock's position size 20 percent; where get_max_contracts is
\* reached the account holds no position on the stock, so the positions it
\* searches are passed empty
look_at_stock(pending_symbols, local, stock, broker, history, chain, best_put) ==
    IF stock \in pending_symbols THEN << >>
    ELSE IF stock \in local THEN << >>
    ELSE IF broker = "position" THEN << "get_position" >>
    ELSE IF history # "data"
         THEN << "get_position", "get_price_history" >>
    ELSE IF chain = "none" \/ best_put = NoneVal
         THEN << "get_position", "get_price_history", "get_option_chain" >>
    ELSE IF Min(get_max_contracts(100000, << >>, best_put,
                                  IF stock = AMD THEN "AMD" ELSE "F", 20),
                max_contracts_per_symbol) > 0
         THEN << "get_position", "get_price_history", "get_option_chain",
                 "place_option_order" >>
    ELSE << "get_position", "get_price_history", "get_option_chain" >>

LookInit ==
    /\ engine = "WB"
    /\ driver = "look"
    /\ Constructed
    /\ status = "ready"
    /\ cache = {}
    /\ current = 0
    /\ results = << >>
    \* what the trading client's get_orders does, the orders the broker holds
    \* open (a stock order, option orders) and the symbols with a local position
    /\ args \in
          [ orders_call : {"returns", "raises"},
            open_orders : SUBSET { [ symbol |-> AMD ], [ symbol |-> AMD \o OccSuffix ],
                                   [ symbol |-> F \o OccSuffix ] },
            local : SUBSET { BotWatchlist[i] : i \in 1..Len(BotWatchlist) } ]
    /\ out = << >>
    /\ account = NewAccount(100000)

\* pending_orders = self.alpaca.get_orders(status="open") and the set of
\* pending symbols; the except branch needs get_orders to raise, which the
\* service never does
Look_get_orders ==
    /\ driver = "look" /\ status = "ready"
    /\ cache' = PendingSymbols(Alpaca_get_orders(args.orders_call, args.open_orders))
    /\ status' = "looping"
    /\ UNCHANGED << engine, days, date, price, rsi, pc, snap, idx, positions, capital,
                    trades, daily_values, premium_collected, assignments,
                    account, driver, current, results, args, out >>

\* for stock in self.config.watchlist: one stock
Look_stock ==
    /\ driver = "look" /\ status = "looping" /\ current < Len(BotWatchlist)
    /\ \E broker \in {"position", "not found", "error"}, history \in {"data", "empty", "error"},
          chain \in {"quotes", "none"}, best_put \in {NoneVal, 10, 500} :
          results' = Append(results,
              [ stock |-> BotWatchlist[current + 1], broker |-> broker,
                calls |-> look_at_stock(cache, args.local, BotWatchlist[current + 1],
                                        broker, history, chain, best_put) ])
    /\ current' = current + 1
    /\ UNCHANGED << engine, days, date, price, rsi, pc, snap, idx, positions, capital,
                    trades, daily_values, premium_collected, assignments,
                    account, driver, status, cache, args, out >>

\* the loop's end
Look_return ==
    /\ driver = "look" /\ status = "looping" /\ current = Len(BotWatchlist)
    /\ status' = "done"
    /\ UNCHANGED << engine, days, date, price, rsi, pc, snap, idx, positions, capital,
                    trades, daily_values, premium_collected, assignments,
                    account, driver, cache, current, results, args, out >>

LookSpec == LookInit /\ [][(Look_get_orders \/ Look_stock \/ Look_return)]_vars

\* the broker holds an open order on the symbol or on one of its contracts
HasPendingOrder(stock) ==
    \E order \in args.open_orders :
        \/ order.symbol = stock
        \/ /\ Len(order.symbol) = Len(stock) + 15
           /\ SubSeq(order.symbol, 1, Len(stock)) = stock

\* the calls that fetch data for an entry or place it
EntryCalls == {"get_price_history", "get_option_chain", "place_option_order"}

CallsOf(r) == { r.calls[i] : i \in 1..Len(r.calls) }

\* C29: no entry order is placed and no price history or option chain is
\* fetched for a watchlist symbol with a local position, a position reported
\* by the broker or a pending open order on the symbol or one of its option
\* contracts; when the pending-order list cannot be fetched no entry is
\* placed for any symbol in that cycle
C29_NoDuplicateEntry ==
    driver = "look" =>
        \A i \in 1..Len(results) :
            /\ (\/ results[i].stock \in args.local
                \/ results[i].broker = "position"
                \/ HasPendingOrder(results[i].stock))
                   => CallsOf(results[i]) \cap EntryCalls = {}
            /\ args.orders_call = "raises"
                   => "place_option_order" \notin CallsOf(results[i])

\* ---------------------------------------------------------------------------
\* WheelBot._is_trading_time (times of day in seconds since midnight)
\* ---------------------------------------------------------------------------

\* time(h, m) and time(h, m, s)
TimeOf(h, m, s) == h * 3600 + m * 60 + s

\* a check that takes the close itself for after-hours
is_trading_time_from_close(current_time_et, check_premarket, check_afterhours) ==
    \/ TimeOf(9, 30, 0) <= current_time_et /\ current_time_et < TimeOf(16, 0, 0)
    \/ check_premarket /\ TimeOf(4, 0, 0) <= current_time_et
                       /\ current_time_et < TimeOf(9, 30, 0)
    \/ check_afterhours /\ TimeOf(16, 0, 0) <= current_time_et
                        /\ current_time_et < TimeOf(20, 0, 0)
\* _is_trading_time: regular hours, then pre-market and after-hours when the
\* polling configuration enables them; the close is excluded from both sides
is_trading_time(current_time_et, check_premarket, check_afterhours) ==
    \/ TimeOf(9, 30, 0) <= current_time_et /\ current_time_et < TimeOf(16, 0, 0)
    \/ check_premarket /\ TimeOf(4, 0, 0) <= current_time_et
                       /\ current_time_et < TimeOf(9, 30, 0)
    \/ check_afterhours /\ TimeOf(16, 0, 0) < current_time_et
                        /\ current_time_et < TimeOf(20, 0, 0)

ClockInit ==
    /\ engine = "WB"
    /\ driver = "clock"
    /\ Constructed
    /\ status = "ready"
    /\ cache = << >>
    /\ current = 0
    /\ results = << >>
    \* the times of day tried: every quarter of an hour, the second before, at
    \* and after each boundary of the three sessions, and both ends of the day
    /\ args \in
          [ current_time_et :
                { k * 900 : k \in 0..((86400 \div 900) - 1) }
                \cup { e + dt : e \in { TimeOf(4, 0, 0), TimeOf(9, 30, 0),
                                       TimeOf(16, 0, 0), TimeOf(20, 0, 0) },
                               dt \in {-1, 0, 1, 60} }
                \cup { 0, 86399 },
            check_premarket : BOOLEAN, check_afterhours : BOOLEAN ]
    /\ out = << >>
    /\ account = NewAccount(0)

Call_is_trading_time ==
    /\ driver = "clock" /\ status = "ready"
    /\ out' = << is_trading_time(args.current_time_et, args.check_premarket,
                                 args.check_afterhours) >>
    /\ status' = "done"
    /\ UNCHANGED << engine, days, date, price, rsi, pc, snap, idx, positions, capital,
                    trades, daily_values, premium_collected, assignments,
                    account, driver, cache, current, results, args >>

ClockSpec == ClockInit /\ [][(Call_is_trading_time)]_vars

\* C30: with pre-market and after-hours checking enabled _is_trading_time(t)
\* is true exactly for times in [04:00, 16:00) or (16:00, 20:00): 04:00 and
\* 09:30 are trading time, 16:00:00 is not, 16:01 and 19:59:59 are, 20:00:00
\* and 03:59:59 are not
C30_TradingHours ==
    (driver = "clock" /\ status = "done"
        /\ args.check_premarket /\ args.check_afterhours) =>
        out[1] = (\/ TimeOf(4, 0, 0) <= args.current_time_et
                        /\ args.current_time_et < TimeOf(16, 0, 0)
                  \/ TimeOf(16, 0, 0) < args.current_time_et
                        /\ args.current_time_et < TimeOf(20, 0, 0))

\* C30 witness: with both sessions enabled the close itself, 16:00:00, was
\* answered not trading time
C30_Witness ==
    /\ driver = "clock" /\ status = "done"
    /\ args.check_premarket /\ args.check_afterhours
    /\ args.current_time_et = TimeOf(16, 0, 0)
    /\ out = << FALSE >>

\* ---------------------------------------------------------------------------
\* WheelBot.run: the main loop, one iteration at a time
\* ---------------------------------------------------------------------------

\* how many iterations of the loop a behaviour follows
MaxCycles == 2

\* a loop that catches nothing
run_iteration_unguarded(current_time_et, check_premarket, check_afterhours, check, look) ==
    IF ~is_trading_time(current_time_et, check_premarket, check_afterhours)
    THEN [ events |-> << "is_trading_time", "sleep 300" >>, stopped |-> FALSE ]
    ELSE IF check \in {"raises Exception", "raises KeyboardInterrupt"}
    THEN [ events |-> << "is_trading_time", "check_positions", check >>, stopped |-> TRUE ]
    ELSE IF check = "returns False"
    THEN [ events |-> << "is_trading_time", "check_positions", "sleep 60" >>,
           stopped |-> FALSE ]
    ELSE IF look \in {"raises Exception", "raises KeyboardInterrupt"}
    THEN [ events |-> << "is_trading_time", "check_positions", "look_for_entries", look >>,
           stopped |-> TRUE ]
    ELSE [ events |-> << "is_trading_time", "check_positions", "look_for_entries",
                         "sleep 60" >>,
           stopped |-> FALSE ]
\* one pass through the body of `while True`: outside trading hours sleep
\* after_hours_interval (300) and continue; else _check_positions, then
\* _look_for_entries when it returned True, then sleep market_hours_interval
\* (60); `except Exception` logs "Error in main loop" and sleeps 60, and
\* anything that is not an Exception leaves run()
run_iteration(current_time_et, check_premarket, check_afterhours, check, look) ==
    IF ~is_trading_time(current_time_et, check_premarket, check_afterhours)
    THEN [ events |-> << "is_trading_time", "sleep 300" >>, stopped |-> FALSE ]
    ELSE IF check = "raises Exception"
    THEN [ events |-> << "is_trading_time", "check_positions", check,
                         "Error in main loop", "sleep 60" >>,
           stopped |-> FALSE ]
    ELSE IF check = "raises KeyboardInterrupt"
    THEN [ events |-> << "is_trading_time", "check_positions", check >>, stopped |-> TRUE ]
    ELSE IF check = "returns False"
    THEN [ events |-> << "is_trading_time", "check_positions", "sleep 60" >>,
           stopped |-> FALSE ]
    ELSE IF look = "raises Exception"
    THEN [ events |-> << "is_trading_time", "check_positions", "look_for_entries", look,
                         "Error in main loop", "sleep 60" >>,
           stopped |-> FALSE ]
    ELSE IF look = "raises KeyboardInterrupt"
    THEN [ events |-> << "is_trading_time", "check_positions", "look_for_entries", look >>,
           stopped |-> TRUE ]
    ELSE [ events |-> << "is_trading_time", "check_positions", "look_for_entries",
                         "sleep 60" >>,
           stopped |-> FALSE ]

RunInit ==
    /\ engine = "WB"
    /\ driver = "run"
    /\ Constructed
    /\ status = "running"
    /\ cache = << >>
    /\ current = 0
    /\ results = << >>
    \* config.polling: check_premarket, check_afterhours
    /\ args \in [ check_premarket : BOOLEAN, check_afterhours : BOOLEAN ]
    /\ out = << >>
    /\ account = NewAccount(0)

\* one iteration of the loop: the clock's time and what the two calls do
Run_iteration ==
    /\ driver = "run" /\ status = "running" /\ current < MaxCycles
    /\ \E t \in { TimeOf(3, 0, 0), TimeOf(10, 0, 0), TimeOf(16, 0, 0), TimeOf(17, 0, 0) },
          check \in { "returns True", "returns False", "raises Exception",
                      "raises KeyboardInterrupt" },
          look \in { "returns", "raises Exception", "raises KeyboardInterrupt" } :
          LET r == run_iteration(t, args.check_premarket, args.check_afterhours, check, look)
          IN  /\ results' = Append(results, [ time |-> t, events |-> r.events ])
              /\ status' = IF r.stopped THEN "stopped" ELSE "running"
    /\ current' = current + 1
    /\ UNCHANGED << engine, days, date, price, rsi, pc, snap, idx, positions, capital,
                    trades, daily_values, premium_collected, assignments,
                    account, driver, cache, args, out >>

RunSpec == RunInit /\ [][Run_iteration]_vars

\* the i-th event of an iteration is the given one
EventAt(r, i, e) == i <= Len(r.events) /\ r.events[i] = e

HasEvent(r, e) == \E i \in 1..Len(r.events) : r.events[i] = e

\* C31: run never stops because of an Exception raised inside a cycle: the
\* Exception is followed by the main loop's error log and a sleep of the
\* market-hours interval, the loop is still running and its next iteration
\* can start; position checks and entry scans happen only in iterations whose
\* time is trading time
C31_RunSurvivesErrors ==
    driver = "run" =>
        /\ \A n \in 1..Len(results) :
              /\ \A i \in 1..Len(results[n].events) :
                    results[n].events[i] = "raises Exception" =>
                        /\ EventAt(results[n], i + 1, "Error in main loop")
                        /\ EventAt(results[n], i + 2, "sleep 60")
                        /\ Len(results[n].events) = i + 2
                        /\ (n = Len(results) => status = "running")
              /\ (HasEvent(results[n], "check_positions")
                    \/ HasEvent(results[n], "look_for_entries"))
                    => is_trading_time(results[n].time, args.check_premarket,
                                       args.check_afterhours)
        /\ (status = "stopped" =>
                HasEvent(results[Len(results)], "raises KeyboardInterrupt"))
        /\ (status = "running" /\ current < MaxCycles => ENABLED Run_iteration)

\* C31 witness: an Exception out of _look_for_entries was logged and slept
\* over, and another iteration followed it
C31_Witness ==
    /\ driver = "run" /\ Len(results) = 2
    /\ HasEvent(results[1], "look_for_entries")
    /\ HasEvent(results[1], "raises Exception")
    /\ HasEvent(results[1], "Error in main loop")
    /\ HasEvent(results[2], "check_positions")

(* ============ a run whose allocations exceed the capital ================ *)
\* FastBacktester(capital=INITIAL_CAPITAL) / WheelBacktester(initial_capital)
\* constructed for a 10,000 dollar account whose two tickers may each take
\* 80% of the capital
CashInit ==
    /\ engine \in {"WB", "FB"}
    /\ driver = "small account"
    /\ Constructed
    /\ status = "running"
    /\ cache = << >>
    /\ current = 0
    /\ results = << >>
    /\ args = << >>
    /\ out = << >>
    /\ account = NewAccount(0)

CashSpec == CashInit /\ [][Next]_vars

\* C32: the strategy stays cash-secured: in every state of a backtest run
\* the cash balance is non-negative, so the strike cost of an assigned put
\* (strike x shares) is always covered by cash, also for a watchlist whose
\* allocations add up to more than the capital
C32_CashSecured == capital >= 0

(* ------------------------- covered calls -------------------------------- *)
\* every covered call of the position list pos has a stock position of its
\* symbol that holds at least the shares the call controls
CallsCovered(pos) ==
    \A i \in 1..Len(pos) :
        pos[i].position_type = "CC" =>
            \E j \in 1..Len(pos) :
                /\ pos[j].symbol = pos[i].symbol /\ pos[j].position_type = "STOCK"
                /\ SharesOf(pos[j]) >= (IF engine = "WB" THEN pos[i].quantity ELSE 100)

\* C33: every open covered call is covered: after every step of a run each
\* open call has a stock position of its symbol with at least as many
\* shares as the call controls, and a step that removes a stock position of
\* a symbol is a call-away that removes a call of that symbol with it
C33_CallsCovered ==
    [][ /\ CallsCovered(positions')
        /\ \A s \in Symbols :
             Count(positions', s, "STOCK") < Count(positions, s, "STOCK") =>
                 /\ Count(positions', s, "CC") < Count(positions, s, "CC")
                 /\ Logged({"CALL_ASSIGNED", "CALLED_AWAY"}) ]_vars

\* C33 witness: the stock of a symbol was called away (the trade is logged)
\* while an open call on a held stock position remains in the book
C33_Witness ==
    /\ \E i \in 1..Len(trades) : trades[i].action \in {"CALL_ASSIGNED", "CALLED_AWAY"}
    /\ \E s \in Symbols : Count(positions, s, "CC") = 1 /\ Count(positions, s, "STOCK") >= 1

(* ------------------------ options are closed ---------------------------- *)
\* the option position p is due on the day being processed
IsDue(p) ==
    /\ p.position_type \in {"CSP", "CC"}
    /\ p.expiration # NoneVal /\ date >= p.expiration

\* C34: every short option is closed on the first trading day at or after
\* its expiration that has a spot price: once the day's expiration handling
\* is over, no option of a symbol with a price on that day is still open
\* with an expiration at or before the day
C34_DueOptionsClosed ==
    pc \in {"entry", "cc"} =>
        \A i \in 1..Len(positions) :
            price[positions[i].symbol] # NoneVal => ~ IsDue(positions[i])

\* C34 witness: the expiration handling of a day with prices is over and it
\* closed an option, while an option that is not yet due stays open
C34_Witness ==
    /\ pc \in {"entry", "cc"}
    /\ \E i \in 1..Len(trades) :
         /\ trades[i].date = date /\ price[trades[i].symbol] # NoneVal
         /\ trades[i].action \in {"PUT_ASSIGNED", "PUT_EXPIRED", "CALL_ASSIGNED",
                                  "CALL_EXPIRED", "ASSIGNED", "EXPIRED",
                                  "CALLED_AWAY", "CC_EXPIRED"}
    /\ \E i \in 1..Len(positions) : positions[i].position_type \in {"CSP", "CC"}

(* --------------------- the contract sold as a call ---------------------- *)
\* C35: WheelBacktester._try_sell_covered_call only ever sells a call: the
\* contract of every SELL_CALL trade (and so of every position opened as a
\* covered call) is a call of the synthetic chain, for every ticker, also
\* one whose name contains the letter C
C35_SellsCallsOnly ==
    \A i \in 1..Len(trades) :
        trades[i].action = "SELL_CALL" => trades[i].option_id.letter = "C"

(* ============ WheelBot._check_positions: the held option's quote ======== *)
\* longest chain get_option_chain serves for the held option's expiration
MatchChainLen == 3

\* "Find our specific option in the chain": the first entry whose strike is
\* within a cent of the position's, whose id contains the letter of the
\* position's type and whose id contains the expiration's YYMMDD (0: none).
\* The six digits are found in the date field of the id: the strike field of
\* the contracts held here never spells the date.
find_current_option(current_chain, position) ==
    LET option_type == IF position.position_type = "CSP" THEN "P" ELSE "C"
        ok == { i \in 1..Len(current_chain) :
                  /\ Abs(current_chain[i].strike - position.strike_price) < 1
                  /\ IdContains(current_chain[i].id, option_type)
                  /\ current_chain[i].id.exp_str = position.expiration }
    IN  IF ok = {} THEN 0 ELSE CHOOSE i \in ok : \A j \in ok : i <= j

\* the held position (strike 75.00, expiration day 50) and the chain served
\* for it: get_option_chain(symbol, expiration, min_dte=0, max_dte=dte+1)
\* returns the puts and calls of every expiration up to the day after, in
\* the order of the broker's response
MatchInit ==
    /\ engine = "WB"
    /\ driver = "match"
    /\ Constructed
    /\ status = "ready"
    /\ cache = << >>
    /\ current = 0
    /\ results = << >>
    /\ args \in
          { [ position |-> [ symbol |-> u, position_type |-> t,
                              strike_price |-> 7500, expiration |-> 50 ],
              current_chain |-> c ] :
              u \in {"F", "BAC", "PLTR"}, t \in {"CSP", "CC"},
              c \in UNION { [ 1..n -> [ letter : {"P", "C"}, strike : {7500, 8000},
                                        exp_str : {50, 51} ] ] :
                              n \in 0..MatchChainLen } }
    /\ out = << >>
    /\ account = NewAccount(0)

\* the entry of the chain as get_option_chain builds it from the contract
\* symbol: id, type from the letter after the date, strike from the digits
ChainEntry(u, q) ==
    [ id     |-> [ symbol |-> u, strike |-> q.strike, exp_str |-> q.exp_str,
                   letter |-> q.letter ],
      type   |-> IF q.letter = "C" THEN "call" ELSE "put",
      strike |-> q.strike ]

\* the matching loop of one pass of _check_positions: current_option, or
\* nothing when the loop ends without a match
Call_find_current_option ==
    /\ driver = "match" /\ status = "ready"
    /\ LET chain == [ i \in 1..Len(args.current_chain) |->
                        ChainEntry(args.position.symbol, args.current_chain[i]) ]
           k     == find_current_option(chain, args.position)
       IN  out' = IF k = 0 THEN << >> ELSE << chain[k] >>
    /\ status' = "done"
    /\ UNCHANGED << engine, days, date, price, rsi, pc, snap, idx, positions, capital,
                    trades, daily_values, premium_collected, assignments,
                    account, driver, cache, current, results, args >>

MatchSpec == MatchInit /\ [][Call_find_current_option]_vars

\* C36: the chain entry matched to a held option position is the contract
\* of the same type (put or call), strike and expiration as the position,
\* for every ticker, also one that contains the letter P or C
C36_MatchesHeldContract ==
    (driver = "match" /\ status = "done" /\ out # << >>) =>
        /\ out[1].type = (IF args.position.position_type = "CSP" THEN "put" ELSE "call")
        /\ out[1].strike = args.position.strike_price
        /\ out[1].id.exp_str = args.position.expiration

(* ===== WheelBot cycle: position sync with AlpacaService, then entries === *)
\* AlpacaService.get_positions: the underlying of each option position and
\* the symbol of each stock position the trading client returns; every
\* exception of the client is caught and an empty list is returned
Alpaca_get_positions(positions_call, held) ==
    IF positions_call = "raises" THEN {}
    ELSE { IF p.asset_class = "us_option" THEN Underlying(p.symbol) ELSE p.symbol : p \in held }

\* the broker's book (a short put on AMD, shares of F) and what the trading
\* client's get_all_positions does in this cycle
CycleInit ==
    /\ engine = "WB"
    /\ driver = "cycle"
    /\ Constructed
    /\ status = "ready"
    /\ cache = {}
    /\ current = 0
    /\ results = << >>
    /\ args \in
          [ positions_call : {"returns", "raises"},
            held : SUBSET { [ symbol |-> AMD \o OccSuffix, asset_class |-> "us_option" ],
                            [ symbol |-> F, asset_class |-> "us_equity" ] } ]
    /\ out = << >>
    /\ account = NewAccount(100000)

\* _check_positions up to the sync: _sync_positions stores what get_positions
\* returned and reports success; its except branch needs get_positions to
\* raise, which the service never does
Cycle_sync_positions ==
    /\ driver = "cycle" /\ status = "ready"
    /\ cache' = Alpaca_get_positions(args.positions_call, args.held)
    /\ out' = << TRUE >>
    /\ status' = "synced"
    /\ UNCHANGED << engine, days, date, price, rsi, pc, snap, idx, positions, capital,
                    trades, daily_values, premium_collected, assignments,
                    account, driver, current, results, args >>

\* run: `if sync_ok: self._look_for_entries()`, the whole loop over the
\* watchlist with no pending order; get_position(stock) answers for the
\* stock symbol only: a Position when shares of it are held and the client
\* answers, else None
Cycle_look_for_entries ==
    /\ driver = "cycle" /\ status = "synced" /\ out[1]
    /\ \E broker \in [ 1..Len(BotWatchlist) -> {"position", "not found", "error"} ],
          best_put \in [ 1..Len(BotWatchlist) -> {NoneVal, 10} ] :
          /\ \A i \in 1..Len(BotWatchlist) :
                broker[i] = "position" =>
                    [ symbol |-> BotWatchlist[i], asset_class |-> "us_equity" ] \in args.held
          /\ results' = [ i \in 1..Len(BotWatchlist) |->
                 [ stock |-> BotWatchlist[i], broker |-> broker[i],
                   calls |-> look_at_stock({}, cache, BotWatchlist[i], broker[i],
                                           "data", "quotes", best_put[i]) ] ]
    /\ current' = Len(BotWatchlist)
    /\ status' = "done"
    /\ UNCHANGED << engine, days, date, price, rsi, pc, snap, idx, positions, capital,
                    trades, daily_values, premium_collected, assignments,
                    account, driver, cache, args, out >>

CycleSpec == CycleInit /\ [][Cycle_sync_positions \/ Cycle_look_for_entries]_vars

\* C37: when fetching the open positions from the broker fails in a cycle,
\* no put order is placed in that cycle, so an outage never leads to a
\* second entry on a symbol that is already held
C37_NoEntryAfterFailedSync ==
    (driver = "cycle" /\ args.positions_call = "raises") =>
        \A i \in 1..Len(results) : "place_option_order" \notin CallsOf(results[i])

(* ================= AlpacaService._make_request ========================== *)
\* max_retries of _make_request
request_max_retries == 3

\* what requests.request does in one attempt: it raises, or it returns a
\* response with a status code and a body (JSON, no content, or content
\* that response.json() cannot parse)
Responses ==
    { [ raised |-> TRUE, status_code |-> 0, content |-> "" ] } \cup
    { [ raised |-> FALSE, status_code |-> c, content |-> "json" ] : c \in {404, 429, 500} } \cup
    { [ raised |-> FALSE, status_code |-> 200, content |-> x ] : x \in {"json", "", "not json"} }

\* response.ok
ResponseOk(response) == response.status_code < 400

\* a loop body that also retries a server error
make_request_attempt_retrying_errors(attempt, delay, response) ==
    IF response.raised \/ (ResponseOk(response) /\ response.content = "not json")
    THEN IF attempt < request_max_retries - 1
         THEN [ next |-> "continue", sleep |-> delay, retry_delay |-> delay,
                value |-> "None" ]
         ELSE [ next |-> "return", sleep |-> 0, retry_delay |-> delay, value |-> "None" ]
    ELSE IF response.status_code \in {429, 500}
    THEN [ next |-> "continue", sleep |-> delay, retry_delay |-> delay * 2,
           value |-> "None" ]
    ELSE IF ~ ResponseOk(response)
    THEN [ next |-> "return", sleep |-> 0, retry_delay |-> delay, value |-> "None" ]
    ELSE [ next |-> "return", sleep |-> 0, retry_delay |-> delay,
           value |-> IF response.content = "" THEN "None" ELSE "body" ]

\* the body of `for attempt in range(max_retries)`: a 429 sleeps retry_delay,
\* doubles it and continues; a 404 or any other status that is not ok returns
\* None; an ok response returns response.json(), None without content; an
\* exception of requests.request or of response.json() sleeps and continues
\* before the last attempt and returns None in the last
make_request_attempt(attempt, delay, response) ==
    IF response.raised \/ (ResponseOk(response) /\ response.content = "not json")
    THEN IF attempt < request_max_retries - 1
         THEN [ next |-> "continue", sleep |-> delay, retry_delay |-> delay,
                value |-> "None" ]
         ELSE [ next |-> "return", sleep |-> 0, retry_delay |-> delay, value |-> "None" ]
    ELSE IF response.status_code = 429
    THEN [ next |-> "continue", sleep |-> delay, retry_delay |-> delay * 2,
           value |-> "None" ]
    ELSE IF ~ ResponseOk(response)
    THEN [ next |-> "return", sleep |-> 0, retry_delay |-> delay, value |-> "None" ]
    ELSE [ next |-> "return", sleep |-> 0, retry_delay |-> delay,
           value |-> IF response.content = "" THEN "None" ELSE "body" ]

\* _make_request is entered: attempt 0, retry_delay 1, for a GET of
\* get_option_positions or the POST of place_option_order
RequestInit ==
    /\ engine = "WB"
    /\ driver = "request"
    /\ Constructed
    /\ status = "running"
    /\ cache = 1
    /\ current = 0
    /\ results = << >>
    /\ args \in { [ method |-> "GET", endpoint |-> "/v2/options/positions" ],
                  [ method |-> "POST", endpoint |-> "/v2/orders" ] }
    /\ out = << >>
    /\ account = NewAccount(0)

\* one pass of the loop: the request is sent, the response handled; the
\* function returns from the body or, after the last pass, with None
Request_attempt ==
    /\ driver = "request" /\ status = "running" /\ current < request_max_retries
    /\ \E response \in Responses :
          LET r == make_request_attempt(current, cache, response)
          IN  /\ results' = Append(results,
                     [ method |-> args.method, endpoint |-> args.endpoint,
                       response |-> response, sleep |-> r.sleep ])
              /\ cache' = r.retry_delay
              /\ IF r.next = "return" \/ current + 1 = request_max_retries
                 THEN status' = "returned" /\ out' = << r.value >>
                 ELSE status' = "running" /\ UNCHANGED out
    /\ current' = current + 1
    /\ UNCHANGED << engine, days, date, price, rsi, pc, snap, idx, positions, capital,
                    trades, daily_values, premium_collected, assignments,
                    account, driver, args >>

RequestSpec == RequestInit /\ [][Request_attempt]_vars

\* the attempt's request failed with an exception (in the request or in
\* parsing the body of an ok response)
Failed(response) ==
    response.raised \/ (ResponseOk(response) /\ response.content = "not json")

\* number of rate-limit responses among the first n attempts
RECURSIVE RateLimitsBefore(_, _)
RateLimitsBefore(log, n) ==
    IF n = 0 THEN 0
    ELSE RateLimitsBefore(log, n - 1) + (IF log[n].response.status_code = 429 THEN 1 ELSE 0)

RECURSIVE Pow2(_)
Pow2(n) == IF n = 0 THEN 1 ELSE 2 * Pow2(n - 1)

\* C38: _make_request ends after at most 3 attempts with a value: while it
\* has not returned fewer than 3 requests were sent and the next attempt can
\* be made; every attempt but the last met a 429 or an exception; a 429 is
\* followed by a delay that doubles with each 429; the value returned is the
\* parsed body of an ok response, and None after any other status, after a
\* failed third attempt or a third 429
C38_MakeRequestTerminates ==
    driver = "request" =>
        /\ Len(results) <= request_max_retries
        /\ status = "running" => (Len(results) < request_max_retries /\ out = << >>
                                   /\ ENABLED Request_attempt)
        /\ \A i \in 1..Len(results) :
             /\ (i < Len(results) \/ status = "running") =>
                    (results[i].response.status_code = 429 \/ Failed(results[i].response))
             /\ results[i].response.status_code = 429 =>
                    results[i].sleep = Pow2(RateLimitsBefore(results, i - 1))
        /\ status = "returned" =>
             LET last == results[Len(results)].response
             IN  /\ Len(out) = 1
                 /\ (last.status_code = 429 \/ Failed(last)) =>
                        (Len(results) = request_max_retries /\ out[1] = "None")
                 /\ (~ ResponseOk(last) /\ ~ last.raised) => out[1] = "None"
                 /\ (ResponseOk(last) /\ ~ last.raised /\ last.content = "json") =>
                        out[1] = "body"
                 /\ (ResponseOk(last) /\ ~ last.raised /\ last.content = "") =>
                        out[1] = "None"

\* C38 witness: a 429 and an exception were retried and the third attempt's
\* body is returned, the second 429 of another call waited twice as long
C38_Witness ==
    /\ driver = "request" /\ status = "returned" /\ Len(results) = request_max_retries
    /\ results[1].response.status_code = 429 /\ results[1].sleep = 1
    /\ results[2].response.raised
    /\ out = << "body" >>

\* C39: one call of place_option_order submits at most one order: the POST
\* to /v2/orders is not sent again after an attempt that raised an
\* exception or met a rate-limit response
C39_OrderPostedOnce ==
    (driver = "request" /\ args.method = "POST") =>
        \A i \in 1..Len(results) :
            (results[i].response.raised \/ results[i].response.status_code = 429) =>
                Len(results) = i

(* ====== WheelBot._check_positions: the PDT gate in front of orders ====== *)
\* positions one cycle of _check_positions passes over
GatePositions == 2

\* a stock branch that sells without asking can_day_trade
check_stock_position_ungated(quantity, has_cc, entry_price, chain, can_trade) ==
    IF quantity < 100 \/ has_cc \/ chain = << >> THEN << >>
    ELSE LET call == analyze_call_opportunity(entry_price, chain)
         IN  IF call # 0 THEN << [side |-> "sell", contract |-> call] >> ELSE << >>

\* the stock branch of _check_positions: with 100 shares or more, no covered
\* call on the symbol, a chain and a call picked by analyze_call_opportunity,
\* the call is sold when can_day_trade() allows it
check_stock_position(quantity, has_cc, entry_price, chain, can_trade) ==
    IF quantity < 100 \/ has_cc \/ chain = << >> THEN << >>
    ELSE LET call == analyze_call_opportunity(entry_price, chain)
         IN  IF call # 0 /\ can_trade
             THEN << [side |-> "sell", contract |-> call] >>
             ELSE << >>

\* the account as _sync_pdt_status left it at the start of the cycle
GateInit ==
    /\ engine = "WB"
    /\ driver = "gate"
    /\ Constructed
    /\ status = "running"
    /\ cache = << >>
    /\ current = 0
    /\ results = << >>
    /\ args = << >>
    /\ out = << >>
    /\ account \in { [ NewAccount(e) EXCEPT !.daytrade_count = n,
                                             !.is_pattern_day_trader = f ] :
                       e \in {20000, 30000}, n \in 0..4, f \in BOOLEAN }

\* the pass of the loop over an option position; can_day_trade() is asked on
\* the account as it stands
Gate_option_position ==
    /\ driver = "gate" /\ status = "running" /\ current < GatePositions
    /\ \E h \in { << 7000 >>, << 8000 >>, << 7500, 7000 >> }, n \in {4, 6}, b \in BOOLEAN,
          k \in {5, 80},
          c \in { << >>, << SamplePut(1, 100, -300, 1000), SampleCall(3, 100, 300, 1000) >> } :
          results' = Append(results,
              [ kind |-> "option",
                orders |-> check_option_position(
                    [ sync_ok |-> TRUE, history |-> h, days_to_expiry |-> n,
                      strike |-> 7500, entry_price |-> 7500, is_put |-> b, found |-> TRUE,
                      ask |-> k, premium_received |-> 10000,
                      can_day_trade |-> can_day_trade(account)[1], chain |-> c ]) ])
    /\ current' = current + 1
    /\ UNCHANGED << engine, days, date, price, rsi, pc, snap, idx, positions, capital,
                    trades, daily_values, premium_collected, assignments,
                    account, driver, status, cache, args, out >>

\* the pass of the loop over a stock position
Gate_stock_position ==
    /\ driver = "gate" /\ status = "running" /\ current < GatePositions
    /\ \E quantity \in {50, 100}, has_cc \in BOOLEAN,
          c \in { << >>, << SamplePut(1, 100, -300, 1000), SampleCall(3, 100, 300, 1000) >> } :
          results' = Append(results,
              [ kind |-> "stock",
                orders |-> check_stock_position(quantity, has_cc, 7500, c,
                                                can_day_trade(account)[1]) ])
    /\ current' = current + 1
    /\ UNCHANGED << engine, days, date, price, rsi, pc, snap, idx, positions, capital,
                    trades, daily_values, premium_collected, assignments,
                    account, driver, status, cache, args, out >>

GateSpec == GateInit /\ [][Gate_option_position \/ Gate_stock_position]_vars

\* C40: in _check_positions a buy to close (take-profit or roll), the
\* replacement sale of a roll and a covered-call sale are placed only when
\* can_day_trade() is True for the account of the cycle; on a restricted
\* account (not flagged, equity below 25000) with 3 or more day trades no
\* order is placed in the cycle
C40_OrdersBehindPdtGate ==
    driver = "gate" =>
        \A i \in 1..Len(results) :
            /\ results[i].orders # << >> => can_day_trade(account)[1]
            /\ ( /\ ~ account.is_pattern_day_trader
                 /\ account.equity < 25000
                 /\ account.daytrade_count >= 3 ) => results[i].orders = << >>

\* C40 witness: on a restricted account with a day trade left the cycle
\* rolled an option (buy to close, then sell) and sold a covered call
C40_Witness ==
    /\ driver = "gate" /\ Len(results) = 2
    /\ ~ account.is_pattern_day_trader /\ account.equity < 25000
    /\ account.daytrade_count = 2
    /\ results[1].kind = "option" /\ Len(results[1].orders) = 2
    /\ results[2].kind = "stock" /\ Len(results[2].orders) = 1

====
